---- MODULE Spec2Model ----
(***************************************************************************)
(* The minimal PDF generator of src/app/exam-papers/generate-pdf/route.ts: *)
(* wrapText and buildPaperLines (text layout) and buildPdfFromLines        *)
(* (pagination, object table, cross-reference table, trailer).             *)
(*                                                                         *)
(* A string is a sequence of UTF-16 code units, one element per unit: an   *)
(* ASCII unit is the one-character string itself, any other unit is named  *)
(* by its code point ("U+2022").  A byte string is a sequence of bytes: an *)
(* ASCII byte is the character itself, any other byte is named in hex      *)
(* ("xE2").  Lengths in points are held in hundredths of a point, which is *)
(* exact for every number the code prints with toFixed(2).                 *)
(***************************************************************************)
EXTENDS Integers, Sequences, FiniteSets, TLC

VARIABLES
  lines,        \* buildPdfFromLines: its argument, a sequence of Line
  pc,           \* position of the run
  idx,          \* number of Lines the for loop of buildPdfFromLines has placed
  y,            \* vertical cursor, hundredths of a point
  current,      \* ops of the page being filled
  pages,        \* finished pages, each the sequence of its ops
  finalBodies,  \* object bodies, finalBodies[i] is object i
  offsets,      \* offsets[1] is the entry of object 0, offsets[i + 1] of object i
  xrefStart,    \* byte position of the cross-reference table
  out,          \* the bytes returned
  paper,        \* buildPaperLines: its argument, an ExamPaper
  text,         \* wrapText, show: the text given
  maxChars,     \* wrapText: the width given
  wrapped,      \* wrapText: the lines returned
  shown,        \* show: the operation pushed
  rewrapped,    \* wrapText: the lines returned for the returned lines joined
  stem,         \* safeFilename: the stem returned
  req,          \* POST: the request, as its body
  response,     \* POST: the Response returned, or the exception thrown
  calls,        \* concurrent POSTs: calls[r] holds the locals of request r
  layout,       \* concurrent POSTs: pages, current and y of buildPdfFromLines,
                \* by scope
  payload,      \* AI route POST: the body of the request
  parsed,       \* generatePaperWithOpenAI: the paper the model returned
  qCount,       \* generatePaperWithOpenAI: the question count asked for
  generated,    \* AI route POST: paper, what generatePaperWithOpenAI returned
  browser,      \* AI route POST: "none", "open" or "closed"
  pending,      \* AI route POST: how the try block ended, at the finally
  selected,     \* ExamPapersClient: the index in paperSets of the paper set
                \* selected, 0 for null
  open,         \* ExamPapersClient: whether the modal is open
  form,         \* ExamPaperModal: the FormState
  loading,      \* ExamPaperModal: whether a submit is running
  error,        \* ExamPaperModal: the message shown
  outstanding   \* ExamPaperModal: number of fetches that have not settled

pdfVars == <<lines, pc, idx, y, current, pages, finalBodies, offsets, xrefStart, out>>

textVars == <<text, maxChars, wrapped, shown, rewrapped, stem>>

postVars == <<req, response>>

concVars == <<calls, layout>>

aiVars == <<payload, parsed, qCount, generated, browser, pending>>

modalVars == <<selected, open, form, loading, error, outstanding>>

extVars == <<concVars, aiVars, modalVars>>

vars == <<pdfVars, paper, textVars, postVars, extVars>>

(***************************************************************************)
(* Bounds and inputs                                                       *)
(***************************************************************************)
MaxLines == 3

\* Line texts given to buildPdfFromLines: a plain one, and one with every
\* metacharacter of a PDF literal string and characters whose UTF-8 encoding
\* has two and three bytes.
LineTexts == {<<"a">>, <<"(", "\\", "U+00E9", "U+2014", ")">>}

\* Font sizes in points (<<>> is an absent size): two Lines of size 400 do
\* not fit on one page, a Line of size 800 is taller than a page.
LineSizes == {<<>>, <<400>>, <<800>>}

LineValues == [text : LineTexts, size : LineSizes, bold : {FALSE}]

RECURSIVE SeqsUpTo(_, _)
SeqsUpTo(S, n) ==
  IF n = 0 THEN {<<>>}
  ELSE LET shorter == SeqsUpTo(S, n - 1)
       IN shorter \cup {Append(s, x) : s \in {t \in shorter : Len(t) = n - 1}, x \in S}

(***************************************************************************)
(* Strings                                                                 *)
(***************************************************************************)
RECURSIVE FlatRange(_, _, _)
FlatRange(ss, lo, hi) ==
  IF lo > hi THEN <<>>
  ELSE IF lo = hi THEN ss[lo]
  ELSE LET mid == (lo + hi) \div 2
       IN FlatRange(ss, lo, mid) \o FlatRange(ss, mid + 1, hi)

\* The concatenation of a sequence of strings.
Flatten(ss) == FlatRange(ss, 1, Len(ss))

\* Array.prototype.join
Join(ss, sep) ==
  Flatten([i \in 1..Len(ss) |-> IF i = 1 THEN ss[i] ELSE sep \o ss[i]])

Digit(d) == <<"0", "1", "2", "3", "4", "5", "6", "7", "8", "9">>[d + 1]

\* A non-negative integer in a template literal, or String(n)
RECURSIVE NatStr(_)
NatStr(n) ==
  IF n < 10 THEN <<Digit(n)>> ELSE NatStr(n \div 10) \o <<Digit(n % 10)>>

\* Number.prototype.toFixed(2) of v / 100, v >= 0
ToFixed2(v) ==
  NatStr(v \div 100) \o <<".", Digit((v % 100) \div 10), Digit(v % 10)>>

\* String.prototype.padStart(10, '0')
PadStart10(s) ==
  IF Len(s) >= 10 THEN s ELSE [i \in 1..(10 - Len(s)) |-> "0"] \o s

\* UTF-8 of one code unit
Utf8(c) ==
  CASE c = "U+00E2" -> <<"xC3", "xA2">>
    [] c = "U+00E3" -> <<"xC3", "xA3">>
    [] c = "U+00CF" -> <<"xC3", "x8F">>
    [] c = "U+00D3" -> <<"xC3", "x93">>
    [] c = "U+00E9" -> <<"xC3", "xA9">>
    [] c = "U+2022" -> <<"xE2", "x80", "xA2">>
    [] c = "U+2014" -> <<"xE2", "x80", "x94">>
    [] OTHER -> <<c>>

\* TextEncoder.encode
Encode(s) == Flatten([i \in 1..Len(s) |-> Utf8(s[i])])

\* String.prototype.replace(/ch/g, rep)
ReplaceAll(s, ch, rep) ==
  Flatten([i \in 1..Len(s) |-> IF s[i] = ch THEN rep ELSE <<s[i]>>])

\* pdfStringEscape with the bug of escaping the parentheses first, so that the
\* backslashes added for them are escaped again.
pdfStringEscapeParensFirst(s) ==
  ReplaceAll(ReplaceAll(ReplaceAll(s, "(", <<"\\", "(">>), ")", <<"\\", ")">>), "\\", <<"\\", "\\">>)

pdfStringEscape(s) ==
  ReplaceAll(ReplaceAll(ReplaceAll(s, "\\", <<"\\", "\\">>), "(", <<"\\", "(">>), ")", <<"\\", ")">>)

(***************************************************************************)
(* Values of the request body: a string, a number, an array, or undefined  *)
(***************************************************************************)
Str(s) == [t |-> "string", s |-> s, n |-> 0, a |-> <<>>]

Num(k) == [t |-> "number", s |-> <<>>, n |-> k, a |-> <<>>]

Arr(items) == [t |-> "array", s |-> <<>>, n |-> 0, a |-> items]

Undefined == [t |-> "undefined", s |-> <<>>, n |-> 0, a |-> <<>>]

Null == [t |-> "null", s |-> <<>>, n |-> 0, a |-> <<>>]

\* An object that has none of the properties the code reads
Obj == [t |-> "object", s |-> <<>>, n |-> 0, a |-> <<>>]

\* Truthy with the bug of testing `!== undefined` only, so that an empty
\* string counts.
TruthyDefined(v) == v.t # "undefined"

\* JavaScript truthiness: `if (paper.passage)`
Truthy(v) ==
  CASE v.t = "string" -> v.s # <<>>
    [] v.t = "number" -> v.n # 0
    [] v.t = "array" -> TRUE
    [] v.t = "object" -> TRUE
    [] OTHER -> FALSE

(***************************************************************************)
(* Text layout: safeText, toTitleCase, wrapText, buildPaperLines           *)
(***************************************************************************)
\* input.replace(/\r/g, '') of a string, the fallback for anything else
safeText(input, fallback) ==
  IF input.t # "string" THEN fallback
  ELSE SelectSeq(input.s, LAMBDA c : c # "\r")

LowerCase == <<"a", "b", "c", "d", "e", "f", "g", "h", "i", "j", "k", "l", "m", "n", "o", "p", "q", "r", "s", "t", "u", "v", "w", "x", "y", "z">>

UpperCase == <<"A", "B", "C", "D", "E", "F", "G", "H", "I", "J", "K", "L", "M", "N", "O", "P", "Q", "R", "S", "T", "U", "V", "W", "X", "Y", "Z">>

\* \w
IsWordChar(c) ==
  \/ \E i \in 1..Len(LowerCase) : c = LowerCase[i] \/ c = UpperCase[i]
  \/ \E d \in 0..9 : c = Digit(d)
  \/ c = "_"

ToUpper(c) ==
  IF \E i \in 1..Len(LowerCase) : c = LowerCase[i]
  THEN UpperCase[CHOOSE i \in 1..Len(LowerCase) : c = LowerCase[i]]
  ELSE c

\* s.replace(/\b\w/g, (m) => m.toUpperCase())
toTitleCase(s) ==
  [i \in 1..Len(s) |->
     IF IsWordChar(s[i]) /\ (i = 1 \/ ~IsWordChar(s[i - 1])) THEN ToUpper(s[i])
     ELSE s[i]]

\* The characters of code 32 to 126
Ascii == <<" ", "!", "\"", "#", "$", "%", "&", "'", "(", ")", "*", "+", ",", "-", ".", "/", "0", "1", "2", "3", "4", "5", "6", "7", "8", "9", ":", ";", "<", "=", ">", "?", "@", "A", "B", "C", "D", "E", "F", "G", "H", "I", "J", "K", "L", "M", "N", "O", "P", "Q", "R", "S", "T", "U", "V", "W", "X", "Y", "Z", "[", "\\", "]", "^", "_", "U+0060", "a", "b", "c", "d", "e", "f", "g", "h", "i", "j", "k", "l", "m", "n", "o", "p", "q", "r", "s", "t", "u", "v", "w", "x", "y", "z", "{", "|", "}", "~">>

\* String.fromCharCode, for the codes 32 to 126
fromCharCode(code) == Ascii[code - 31]

\* \s
WhiteSpace == {" ", "\t", "\n", "\r"}

\* String.prototype.split on a one-character separator: the pieces between
\* the separators, the empty ones included
SplitEach(s, seps) ==
  LET cut == <<0>> \o SelectSeq([i \in 1..Len(s) |-> i], LAMBDA i : s[i] \in seps)
               \o <<Len(s) + 1>>
  IN [k \in 1..(Len(cut) - 1) |-> SubSeq(s, cut[k] + 1, cut[k + 1] - 1)]

\* String.prototype.trim
Trim(s) ==
  LET keep == {i \in 1..Len(s) : s[i] \notin WhiteSpace}
  IN IF keep = {} THEN <<>>
     ELSE SubSeq(s, CHOOSE i \in keep : \A j \in keep : i <= j,
                    CHOOSE i \in keep : \A j \in keep : i >= j)

\* para.trim().split(/\s+/).filter(Boolean): the maximal runs of characters
\* that are not white space
Words(para) == SelectSeq(SplitEach(Trim(para), WhiteSpace), LAMBDA w : w # <<>>)

\* Fits with the bug of a strict comparison.
FitsStrict(line, w, width) == Len(line) + 1 + Len(w) < width

\* (line + ' ' + w).length <= maxChars
Fits(line, w, width) == Len(line) + 1 + Len(w) <= width

\* The loop over the words of one paragraph: line is the line being filled,
\* acc the lines pushed so far
RECURSIVE PackWords(_, _, _, _, _)
PackWords(words, i, line, acc, width) ==
  IF i > Len(words) THEN (IF line # <<>> THEN Append(acc, line) ELSE acc)
  ELSE LET w == words[i]
       IN IF line = <<>> THEN PackWords(words, i + 1, w, acc, width)
          ELSE IF Fits(line, w, width)
               THEN PackWords(words, i + 1, line \o <<" ">> \o w, acc, width)
               ELSE PackWords(words, i + 1, w, Append(acc, line), width)

\* wrapPara with the bug of pushing an empty line after every paragraph that
\* has words.
wrapParaBlankAfter(para, width) ==
  LET words == Words(para)
  IN IF Len(words) = 0 THEN <<<<>>>>
     ELSE Append(PackWords(words, 1, <<>>, <<>>, width), <<>>)

\* The body of the loop over paragraphs
wrapPara(para, width) ==
  LET words == Words(para)
  IN IF Len(words) = 0 THEN <<<<>>>> ELSE PackWords(words, 1, <<>>, <<>>, width)

wrapText(t, width) ==
  LET raw == SplitEach(safeText(Str(t), <<>>), {"\n"})
  IN Flatten([k \in 1..Len(raw) |-> wrapPara(raw[k], width)])

questionWidth == 92
optionWidth == 88

\* A Line: size is <<>> when absent, bold is FALSE when absent
Ln(t, size, bold) == [text |-> t, size |-> size, bold |-> bold]

blankLine == Ln(<<>>, <<>>, FALSE)

\* wrapText(t, width).forEach((t) => lines.push({ text: t, size }))
WrapLines(t, width, size) ==
  LET w == wrapText(t, width)
  IN [i \in 1..Len(w) |-> Ln(w[i], <<size>>, FALSE)]

\* Array.isArray(q.options) ? q.options : []
OptionsOf(q) == IF q.options.t = "array" THEN q.options.a ELSE <<>>

\* questionLines with the bug of pushing the question text as one Line,
\* without wrapping it.
questionLinesUnwrapped(q, qNum) ==
  LET opts == OptionsOf(q)
  IN <<Ln(NatStr(qNum) \o <<".", " ">> \o safeText(q.questionText, <<>>), <<11>>, FALSE)>>
       \o Flatten([j \in 1..Len(opts) |->
                     WrapLines(<<" ", " ", " ">> \o <<fromCharCode(65 + (j - 1))>> \o <<".", " ">>
                                 \o safeText(opts[j], <<>>), optionWidth, 10)])
       \o <<blankLine>>

\* questionLines with the bug of lettering the options from their ordinal,
\* so that the first one is B.
questionLinesLettersFromB(q, qNum) ==
  LET opts == OptionsOf(q)
  IN WrapLines(NatStr(qNum) \o <<".", " ">> \o safeText(q.questionText, <<>>), questionWidth, 11)
       \o Flatten([j \in 1..Len(opts) |->
                     WrapLines(<<" ", " ", " ">> \o <<fromCharCode(65 + j)>> \o <<".", " ">>
                                 \o safeText(opts[j], <<>>), optionWidth, 10)])
       \o <<blankLine>>

\* The first forEach over paper.questions, for the question of ordinal qNum
questionLines(q, qNum) ==
  LET opts == OptionsOf(q)
  IN WrapLines(NatStr(qNum) \o <<".", " ">> \o safeText(q.questionText, <<>>), questionWidth, 11)
       \o Flatten([j \in 1..Len(opts) |->
                     WrapLines(<<" ", " ", " ">> \o <<fromCharCode(65 + (j - 1))>> \o <<".", " ">>
                                 \o safeText(opts[j], <<>>), optionWidth, 10)])
       \o <<blankLine>>

\* AnswerIndex with the index also held below the number of options.
AnswerIndexClamped(q) ==
  LET ansIdx == IF q.correctAnswerIndex.t = "number" THEN q.correctAnswerIndex.n ELSE 0
      last == Len(OptionsOf(q)) - 1
  IN IF ansIdx > last /\ last >= 0 THEN last ELSE IF ansIdx > 0 THEN ansIdx ELSE 0

\* Math.max(0, typeof q.correctAnswerIndex === 'number' ? q.correctAnswerIndex : 0)
AnswerIndex(q) ==
  LET ansIdx == IF q.correctAnswerIndex.t = "number" THEN q.correctAnswerIndex.n ELSE 0
  IN IF ansIdx > 0 THEN ansIdx ELSE 0

\* The second forEach over paper.questions
answerLines(q, qNum) ==
  LET letter == fromCharCode(65 + AnswerIndex(q))
      expl == safeText(q.explanation, <<>>)
  IN <<Ln(NatStr(qNum) \o <<".", " ">> \o <<letter>>, <<11>>, TRUE)>>
       \o (IF expl # <<>> THEN WrapLines(<<"E", "x", "p", "l", "a", "n", "a", "t", "i", "o", "n", ":", " ">> \o expl, questionWidth, 10)
           ELSE <<>>)
       \o <<blankLine>>

\* buildPaperLines with the bug of pushing the answer key before the
\* questions.
buildPaperLinesKeyFirst(p) ==
  LET title == safeText(p.title, <<"1", "1", "+", " ", "E", "x", "a", "m", " ", "P", "a", "p", "e", "r">>)
      subject == safeText(p.subject, <<"S", "u", "b", "j", "e", "c", "t">>)
      board == safeText(p.board, <<"S", "t", "a", "n", "d", "a", "r", "d">>)
      timeAllowed == safeText(p.timeAllowed, <<"N", "o", "t", " ", "s", "p", "e", "c", "i", "f", "i", "e", "d">>)
      instructions == safeText(p.instructions,
                        <<"A", "n", "s", "w", "e", "r", " ", "a", "l", "l", " ", "q", "u", "e", "s", "t", "i", "o", "n", "s", ".", " ", "C", "h", "o", "o", "s", "e", " ", "t", "h", "e", " ", "b", "e", "s", "t", " ", "a", "n", "s", "w", "e", "r", " ", "f", "o", "r", " ", "e", "a", "c", "h", " ", "q", "u", "e", "s", "t", "i", "o", "n", ".">>)
      qs == p.questions
  IN <<Ln(<<"1", "1", " ", "P", "l", "u", "s", " ", "E", "x", "a", "m", " ", "P", "a", "p", "e", "r", "s">>, <<16>>, TRUE),
       Ln(title, <<18>>, TRUE),
       Ln(toTitleCase(subject) \o <<" ", "U+2022", " ">> \o board \o <<" ", "S", "t", "y", "l", "e">>, <<12>>, FALSE),
       Ln(<<"T", "i", "m", "e", " ", "A", "l", "l", "o", "w", "e", "d", ":", " ">> \o timeAllowed, <<11>>, FALSE),
       Ln(<<"T", "o", "t", "a", "l", " ", "Q", "u", "e", "s", "t", "i", "o", "n", "s", ":", " ">> \o NatStr(Len(qs)), <<11>>, FALSE),
       blankLine,
       Ln(<<"I", "n", "s", "t", "r", "u", "c", "t", "i", "o", "n", "s">>, <<12>>, TRUE)>>
     \o WrapLines(instructions, questionWidth, 10)
     \o <<blankLine, Ln(<<"U+2014">>, <<10>>, FALSE), blankLine>>
     \o (IF Truthy(p.passage)
         THEN <<Ln(<<"R", "e", "a", "d", "i", "n", "g", " ", "P", "a", "s", "s", "a", "g", "e">>, <<12>>, TRUE)>>
                \o WrapLines(safeText(p.passage, <<>>), questionWidth, 10)
                \o <<blankLine>>
         ELSE <<>>)
     \o <<Ln(<<"A", "n", "s", "w", "e", "r", " ", "K", "e", "y", " ", "(", "P", "a", "r", "e", "n", "t", "s", " ", "&", " ", "T", "u", "t", "o", "r", "s", ")">>, <<13>>, TRUE), blankLine>>
     \o Flatten([i \in 1..Len(qs) |-> answerLines(qs[i], i)])
     \o <<Ln(<<"Q", "u", "e", "s", "t", "i", "o", "n", "s">>, <<13>>, TRUE), blankLine>>
     \o Flatten([i \in 1..Len(qs) |-> questionLines(qs[i], i)])

buildPaperLines(p) ==
  LET title == safeText(p.title, <<"1", "1", "+", " ", "E", "x", "a", "m", " ", "P", "a", "p", "e", "r">>)
      subject == safeText(p.subject, <<"S", "u", "b", "j", "e", "c", "t">>)
      board == safeText(p.board, <<"S", "t", "a", "n", "d", "a", "r", "d">>)
      timeAllowed == safeText(p.timeAllowed, <<"N", "o", "t", " ", "s", "p", "e", "c", "i", "f", "i", "e", "d">>)
      instructions == safeText(p.instructions,
                        <<"A", "n", "s", "w", "e", "r", " ", "a", "l", "l", " ", "q", "u", "e", "s", "t", "i", "o", "n", "s", ".", " ", "C", "h", "o", "o", "s", "e", " ", "t", "h", "e", " ", "b", "e", "s", "t", " ", "a", "n", "s", "w", "e", "r", " ", "f", "o", "r", " ", "e", "a", "c", "h", " ", "q", "u", "e", "s", "t", "i", "o", "n", ".">>)
      qs == p.questions
  IN <<Ln(<<"1", "1", " ", "P", "l", "u", "s", " ", "E", "x", "a", "m", " ", "P", "a", "p", "e", "r", "s">>, <<16>>, TRUE),
       Ln(title, <<18>>, TRUE),
       Ln(toTitleCase(subject) \o <<" ", "U+2022", " ">> \o board \o <<" ", "S", "t", "y", "l", "e">>, <<12>>, FALSE),
       Ln(<<"T", "i", "m", "e", " ", "A", "l", "l", "o", "w", "e", "d", ":", " ">> \o timeAllowed, <<11>>, FALSE),
       Ln(<<"T", "o", "t", "a", "l", " ", "Q", "u", "e", "s", "t", "i", "o", "n", "s", ":", " ">> \o NatStr(Len(qs)), <<11>>, FALSE),
       blankLine,
       Ln(<<"I", "n", "s", "t", "r", "u", "c", "t", "i", "o", "n", "s">>, <<12>>, TRUE)>>
     \o WrapLines(instructions, questionWidth, 10)
     \o <<blankLine, Ln(<<"U+2014">>, <<10>>, FALSE), blankLine>>
     \o (IF Truthy(p.passage)
         THEN <<Ln(<<"R", "e", "a", "d", "i", "n", "g", " ", "P", "a", "s", "s", "a", "g", "e">>, <<12>>, TRUE)>>
                \o WrapLines(safeText(p.passage, <<>>), questionWidth, 10)
                \o <<blankLine>>
         ELSE <<>>)
     \o <<Ln(<<"Q", "u", "e", "s", "t", "i", "o", "n", "s">>, <<13>>, TRUE), blankLine>>
     \o Flatten([i \in 1..Len(qs) |-> questionLines(qs[i], i)])
     \o <<Ln(<<"A", "n", "s", "w", "e", "r", " ", "K", "e", "y", " ", "(", "P", "a", "r", "e", "n", "t", "s", " ", "&", " ", "T", "u", "t", "o", "r", "s", ")">>, <<13>>, TRUE), blankLine>>
     \o Flatten([i \in 1..Len(qs) |-> answerLines(qs[i], i)])

(***************************************************************************)
(* safeFilename and POST                                                   *)
(***************************************************************************)
\* String.prototype.toLowerCase, for strings whose letters are ASCII
ToLower(c) ==
  IF \E i \in 1..Len(UpperCase) : c = UpperCase[i]
  THEN LowerCase[CHOOSE i \in 1..Len(UpperCase) : c = UpperCase[i]]
  ELSE c

toLowerCase(s) == [i \in 1..Len(s) |-> ToLower(s[i])]

\* [a-z0-9]
IsAlnum(c) ==
  \/ \E i \in 1..Len(LowerCase) : c = LowerCase[i]
  \/ \E d \in 0..9 : c = Digit(d)

\* Hyphenate with the bug of a pattern without `+`, so that every character
\* of a run becomes a hyphen.
HyphenateEach(s) == [i \in 1..Len(s) |-> IF IsAlnum(s[i]) THEN s[i] ELSE "-"]

\* s.replace(/[^a-z0-9]+/g, '-')
Hyphenate(s) ==
  Flatten([i \in 1..Len(s) |->
             IF IsAlnum(s[i]) THEN <<s[i]>>
             ELSE IF i > 1 /\ ~IsAlnum(s[i - 1]) THEN <<>>
             ELSE <<"-">>])

\* s.replace(/(^-|-$)/g, ''): a hyphen at the start and a hyphen at the end
StripEnds(s) ==
  LET first == IF s # <<>> /\ s[1] = "-" THEN 2 ELSE 1
      last == IF Len(s) >= 2 /\ s[Len(s)] = "-" THEN Len(s) - 1 ELSE Len(s)
  IN SubSeq(s, first, last)

stemLimit == 80

\* s.slice(0, n)
Slice0(s, n) == SubSeq(s, 1, IF Len(s) < n THEN Len(s) ELSE n)

safeFilename(input) ==
  LET st == Slice0(StripEnds(Hyphenate(toLowerCase(input))), stemLimit)
  IN IF st = <<>> THEN <<"e", "x", "a", "m", "-", "p", "a", "p", "e", "r">> ELSE st

\* ValidBody with the bug of not testing paper.questions.length.
ValidBodyAllowsEmpty(b) ==
  /\ b.kind # "null"
  /\ b.title.t = "string"
  /\ b.subject.t = "string"
  /\ b.questions.t = "array"

\* The negation of the condition of the second `if` of POST; a body that is
\* not an object has none of the properties read
ValidBody(b) ==
  /\ b.kind # "null"
  /\ b.title.t = "string"
  /\ b.subject.t = "string"
  /\ b.questions.t = "array"
  /\ Len(b.questions.a) # 0

\* Reading a property of null throws a TypeError: `q.questionText` in the
\* callback of paper.questions.map
MapThrows(b) == \E i \in 1..Len(b.questions.a) : b.questions.a[i].kind = "null"

\* The callback of paper.questions.map
normalizeQuestion(q) ==
  [questionText |-> Str(safeText(q.questionText, <<>>)),
   options |-> IF q.options.t = "array"
               THEN Arr([j \in 1..Len(q.options.a) |->
                           Str(safeText(q.options.a[j], <<>>))])
               ELSE Arr(<<>>),
   correctAnswerIndex |-> IF q.correctAnswerIndex.t = "number"
                          THEN q.correctAnswerIndex ELSE Num(0),
   explanation |-> Str(safeText(q.explanation, <<>>))]

\* The argument POST gives to buildPaperLines
NormalizedPaper(b) ==
  [title |-> Str(safeText(b.title, <<"1", "1", "+", " ", "E", "x", "a", "m", " ", "P", "a", "p", "e", "r">>)),
   subject |-> Str(safeText(b.subject, <<"S", "u", "b", "j", "e", "c", "t">>)),
   board |-> Str(safeText(b.board, <<"S", "t", "a", "n", "d", "a", "r", "d">>)),
   timeAllowed |-> Str(safeText(b.timeAllowed, <<"N", "o", "t", " ", "s", "p", "e", "c", "i", "f", "i", "e", "d">>)),
   instructions |-> Str(safeText(b.instructions, <<>>)),
   passage |-> Str(safeText(b.passage, <<>>)),
   questions |-> [i \in 1..Len(b.questions.a) |-> normalizeQuestion(b.questions.a[i])]]

BadRequest(message) ==
  [status |-> 400, contentType |-> "application/json", error |-> message,
   disposition |-> <<>>, cacheControl |-> "", bytes |-> <<>>]

PdfResponse(pdfBytes, filename) ==
  [status |-> 200, contentType |-> "application/pdf", error |-> "",
   disposition |-> <<"a", "t", "t", "a", "c", "h", "m", "e", "n", "t", ";", " ", "f", "i", "l", "e", "n", "a", "m", "e", "=", "\"">> \o filename \o <<"\"">>,
   cacheControl |-> "no-store", bytes |-> pdfBytes]

\* What the caller of POST gets when POST throws
Thrown(name) ==
  [status |-> 0, contentType |-> "", error |-> name, disposition |-> <<>>,
   cacheControl |-> "", bytes |-> <<>>]

(***************************************************************************)
(* buildPdfFromLines: geometry                                             *)
(***************************************************************************)
PAGE_W == 59528
PAGE_H == 84189
M_LEFT == 4800
M_TOP == 5600
M_BOTTOM == 5600
defaultFontSize == 11
lineGap == 3

(***************************************************************************)
(* buildPdfFromLines: page operations                                      *)
(***************************************************************************)
setFont(ops, size) == Append(ops, <<"/", "F", "1", " ">> \o NatStr(size) \o <<" ", "T", "f">>)

moveTo(ops, x, yPos) ==
  Append(ops, ToFixed2(x) \o <<" ">> \o ToFixed2(yPos) \o <<" ", "T", "d">>)

show(ops, t) == Append(ops, <<"(">> \o pdfStringEscape(t) \o <<")", " ", "T", "j">>)

beginText(ops) == Append(ops, <<"B", "T">>)

endText(ops) == Append(ops, <<"E", "T">>)

\* The three statements that open every page: BT, the default font, the
\* move to the top left corner.
OpenPage == moveTo(setFont(beginText(<<>>), defaultFontSize), M_LEFT, PAGE_H - M_TOP)

\* ln.size ?? defaultFontSize
LineSize(ln) == IF ln.size = <<>> THEN defaultFontSize ELSE ln.size[1]

\* size + lineGap, in hundredths
LineHeight(ln) == 100 * (LineSize(ln) + lineGap)

\* PageFull with the bug of testing the cursor alone, not the cursor after
\* the Line.
PageFullNoHeight(yy, lh) == yy < M_BOTTOM

\* PageFull with the bug of adding the line height.
PageFullAdds(yy, lh) == yy + lh < M_BOTTOM

\* "If page full": y - lh < M_BOTTOM
PageFull(yy, lh) == yy - lh < M_BOTTOM

(***************************************************************************)
(* buildPdfFromLines: objects                                              *)
(***************************************************************************)
catalogId == 1
pagesId == 2
fontId == 3

fontObj == <<"<", "<", " ", "/", "T", "y", "p", "e", " ", "/", "F", "o", "n", "t", " ", "/", "S", "u", "b", "t", "y", "p", "e", " ", "/", "T", "y", "p", "e", "1", " ", "/", "B", "a", "s", "e", "F", "o", "n", "t", " ", "/", "H", "e", "l", "v", "e", "t", "i", "c", "a", " ", ">", ">">>

\* StreamLength with the bug of counting code units (content.length).
StreamLengthChars(content) == Len(content)

\* /Length of a content stream
StreamLength(content) == Len(Encode(content))

streamObj(content) ==
  <<"<", "<", " ", "/", "L", "e", "n", "g", "t", "h", " ">> \o NatStr(StreamLength(content)) \o <<" ", ">", ">", "\n", "s", "t", "r", "e", "a", "m", "\n">>
    \o content \o <<"\n", "e", "n", "d", "s", "t", "r", "e", "a", "m">>

pageObj(contentObjId) ==
  <<"<", "<", "\n", "/", "T", "y", "p", "e", " ", "/", "P", "a", "g", "e", "\n", "/", "P", "a", "r", "e", "n", "t", " ">> \o NatStr(pagesId) \o <<" ", "0", " ", "R", "\n", "/", "M", "e", "d", "i", "a", "B", "o", "x", " ", "[", "0", " ", "0", " ">>
    \o ToFixed2(PAGE_W) \o <<" ">> \o ToFixed2(PAGE_H)
    \o <<"]", "\n", "/", "R", "e", "s", "o", "u", "r", "c", "e", "s", " ", "<", "<", " ", "/", "F", "o", "n", "t", " ", "<", "<", " ", "/", "F", "1", " ">> \o NatStr(fontId)
    \o <<" ", "0", " ", "R", " ", ">", ">", " ", ">", ">", "\n", "/", "C", "o", "n", "t", "e", "n", "t", "s", " ">> \o NatStr(contentObjId) \o <<" ", "0", " ", "R", "\n", ">", ">">>

\* The loop over pages: st holds objects, nextId, pageIds and contentIds.
RECURSIVE AddPages(_, _, _)
AddPages(ps, k, st) ==
  IF k > Len(ps) THEN st
  ELSE LET content == Join(ps[k], <<"\n">>)
           contentObjId == st.nextId
           pageObjId == st.nextId + 1
       IN AddPages(ps, k + 1,
            [objects |-> st.objects \o <<streamObj(content), pageObj(contentObjId)>>,
             nextId |-> st.nextId + 2,
             pageIds |-> Append(st.pageIds, pageObjId),
             contentIds |-> Append(st.contentIds, contentObjId)])

pagesObj(pageIds) ==
  <<"<", "<", " ", "/", "T", "y", "p", "e", " ", "/", "P", "a", "g", "e", "s", " ", "/", "K", "i", "d", "s", " ", "[", " ">>
    \o Join([i \in 1..Len(pageIds) |-> NatStr(pageIds[i]) \o <<" ", "0", " ", "R">>], <<" ">>)
    \o <<" ", "]", " ", "/", "C", "o", "u", "n", "t", " ">> \o NatStr(Len(pageIds)) \o <<" ", ">", ">">>

catalogObj == <<"<", "<", " ", "/", "T", "y", "p", "e", " ", "/", "C", "a", "t", "a", "l", "o", "g", " ", "/", "P", "a", "g", "e", "s", " ">> \o NatStr(pagesId) \o <<" ", "0", " ", "R", " ", ">", ">">>

\* FinalBodies with the bug of copying restObjects from index 0, so that the
\* font is emitted twice and every later object is numbered one too high.
FinalBodiesFromZero(ps) ==
  LET st == AddPages(ps, 1,
              [objects |-> <<fontObj>>, nextId |-> 4,
               pageIds |-> <<>>, contentIds |-> <<>>])
      restObjects == st.objects
  IN <<catalogObj, pagesObj(st.pageIds), restObjects[1]>> \o restObjects

\* finalBodies: catalog, pages, font, then the content and page objects
FinalBodies(ps) ==
  LET st == AddPages(ps, 1,
              [objects |-> <<fontObj>>, nextId |-> 4,
               pageIds |-> <<>>, contentIds |-> <<>>])
      restObjects == st.objects
  IN <<catalogObj, pagesObj(st.pageIds), restObjects[1]>>
       \o SubSeq(restObjects, 2, Len(restObjects))

(***************************************************************************)
(* buildPdfFromLines: serialization                                        *)
(***************************************************************************)
pdfHeader == <<"%", "P", "D", "F", "-", "1", ".", "4", "\n", "%", "U+00E2", "U+00E3", "U+00CF", "U+00D3", "\n">>

objStr(objNum, body) == NatStr(objNum) \o <<" ", "0", " ", "o", "b", "j", "\n">> \o body \o <<"\n", "e", "n", "d", "o", "b", "j", "\n">>

\* ChunkLength with the bug of counting code units (objStr.length).
ChunkLengthChars(s) == Len(s)

\* What one chunk adds to the cursor
ChunkLength(s) == Len(Encode(s))

\* The loop over finalBodies: st holds offsets, chunks (already joined) and cursor.
RECURSIVE WriteObjects(_, _, _)
WriteObjects(bodies, i, st) ==
  IF i > Len(bodies) THEN st
  ELSE LET s == objStr(i, bodies[i])
       IN WriteObjects(bodies, i + 1,
            [offsets |-> Append(st.offsets, st.cursor),
             bytes |-> st.bytes \o Encode(s),
             cursor |-> st.cursor + ChunkLength(s)])

xrefTable(bodies, offs) ==
  <<"x", "r", "e", "f", "\n", "0", " ">> \o NatStr(Len(bodies) + 1) \o <<"\n">> \o <<"0", "0", "0", "0", "0", "0", "0", "0", "0", "0", " ", "6", "5", "5", "3", "5", " ", "f", " ", "\n">>
    \o Flatten([i \in 1..(Len(offs) - 1) |->
                  PadStart10(NatStr(offs[i + 1])) \o <<" ", "0", "0", "0", "0", "0", " ", "n", " ", "\n">>])

\* trailer with the bug of naming the Pages node as /Root.
trailerRootPages(bodies, start) ==
  <<"t", "r", "a", "i", "l", "e", "r", "\n", "<", "<", " ", "/", "S", "i", "z", "e", " ">> \o NatStr(Len(bodies) + 1) \o <<" ", "/", "R", "o", "o", "t", " ">>
    \o NatStr(pagesId) \o <<" ", "0", " ", "R", " ", ">", ">", "\n", "s", "t", "a", "r", "t", "x", "r", "e", "f", "\n">> \o NatStr(start) \o <<"\n", "%", "%", "E", "O", "F", "\n">>

trailer(bodies, start) ==
  <<"t", "r", "a", "i", "l", "e", "r", "\n", "<", "<", " ", "/", "S", "i", "z", "e", " ">> \o NatStr(Len(bodies) + 1) \o <<" ", "/", "R", "o", "o", "t", " ">>
    \o NatStr(catalogId) \o <<" ", "0", " ", "R", " ", ">", ">", "\n", "s", "t", "a", "r", "t", "x", "r", "e", "f", "\n">> \o NatStr(start) \o <<"\n", "%", "%", "E", "O", "F", "\n">>

(***************************************************************************)
(* Inputs of the text functions                                            *)
(***************************************************************************)
MaxQuestions == 2
MaxWrapLen == 5
MaxWrapWidth == 4
MaxShowLen == 3

Rep(c, n) == [i \in 1..n |-> c]

\* k words of w letters each, with gap spaces between two words
WordsText(k, w, gap) == Join([i \in 1..k |-> Rep("a", w)], Rep(" ", gap))

\* Question texts: a short one; 32 short words, 95 characters; two words 95
\* spaces apart; one word of 100 letters; two paragraphs around an empty one.
QuestionTexts ==
  {<<"W", "h", "a", "t", " ", "i", "s", " ", "2", "+", "2", "?">>, WordsText(32, 2, 1), WordsText(2, 1, 95), Rep("a", 100),
   <<"a", "\n", "\n", "b">>}

Question(qt, opts, ans, expl) ==
  [questionText |-> qt, options |-> opts, correctAnswerIndex |-> ans,
   explanation |-> expl]

SampleQuestions ==
  {Question(Str(qt), Arr(<<Str(<<"3">>), Str(<<"4">>), Str(<<"5">>), Str(<<"6">>)>>),
            Num(1), Str(<<"2", "+", "2", "=", "4">>)) : qt \in QuestionTexts}
    \cup {Question(Str(<<"W", "h", "a", "t", " ", "i", "s", " ", "2", "+", "2", "?">>), Undefined, Undefined, Undefined),
          \* index 9 on four options, and an empty explanation
          Question(Str(<<"W", "h", "a", "t", " ", "i", "s", " ", "2", "+", "2", "?">>),
                   Arr(<<Str(<<"3">>), Str(<<"4">>), Str(<<"5">>), Str(<<"6">>)>>),
                   Num(9), Str(<<>>)),
          \* an option of 92 characters, an option of two paragraphs, a
          \* negative index, and an explanation of 95 characters
          Question(Str(<<"P", "i", "c", "k", " ", "o", "n", "e", ".">>),
                   Arr(<<Str(WordsText(31, 2, 1)), Str(<<"x", "\n", "y">>)>>),
                   Num(0 - 1), Str(WordsText(32, 2, 1)))}

\* Passages: none, the empty one, and one of 46 lines (45 of them empty), which
\* takes the paper to a second page.
SamplePassages == {Undefined, Str(<<>>), Str(<<"A", " ", "c", "a", "t", " ", "s", "a", "t", ".">> \o Rep("\n", 45))}

Paper(pg, qs) ==
  [title |-> Str(<<"S", "a", "m", "p", "l", "e">>), subject |-> Str(<<"m", "a", "t", "h", "s">>), board |-> Undefined,
   timeAllowed |-> Undefined, instructions |-> Undefined, passage |-> pg,
   questions |-> qs]

\* Papers of one question with every passage, and papers of up to
\* MaxQuestions questions without a passage
SamplePapers ==
  {Paper(pg, <<q>>) : pg \in SamplePassages, q \in SampleQuestions}
    \cup {Paper(Undefined, qs) : qs \in SeqsUpTo(SampleQuestions, MaxQuestions) \ {<<>>}}

\* The value of paper when no paper is being laid out
NoPaper ==
  [title |-> Undefined, subject |-> Undefined, board |-> Undefined,
   timeAllowed |-> Undefined, instructions |-> Undefined, passage |-> Undefined,
   questions |-> <<>>]

\* The value of req when no request is being answered
NoBody ==
  [kind |-> "none", title |-> Undefined, subject |-> Undefined, board |-> Undefined,
   timeAllowed |-> Undefined, instructions |-> Undefined, passage |-> Undefined,
   questions |-> Undefined]

\* The value of response before POST returns
NoResponse ==
  [status |-> 0, contentType |-> "", error |-> "", disposition |-> <<>>,
   cacheControl |-> "", bytes |-> <<>>]

\* An element of the questions array of a body: an object with these
\* properties, or null, or a number (kind)
Element(kind, qt, opts, ans, expl) ==
  [kind |-> kind, questionText |-> qt, options |-> opts,
   correctAnswerIndex |-> ans, explanation |-> expl]

\* Elements: a well-formed question; one whose every field has the wrong type,
\* with options that are a number, null, an object and a string with a
\* carriage return; one without fields; null; a number.
SampleElements ==
  {Element("object", Str(<<"W", "h", "a", "t", " ", "i", "s", " ", "2", "+", "2", "?">>), Arr(<<Str(<<"3">>), Str(<<"4">>)>>),
           Num(1), Str(<<"2", "+", "2", "=", "4">>)),
   Element("object", Num(7), Arr(<<Num(3), Null, Obj, Str(<<"4", "\\", "r">>)>>),
           Str(<<"1">>), Null),
   Element("object", Undefined, Obj, Undefined, Obj),
   Element("null", Undefined, Undefined, Undefined, Undefined),
   Element("number", Undefined, Undefined, Undefined, Undefined)}

\* A parsed body: an object with these properties, or null, or a number
\* (kind); kind "invalid" is a body that is not JSON
Body(kind, title, subject, rest, qs) ==
  [kind |-> kind, title |-> title, subject |-> subject, board |-> rest[1],
   timeAllowed |-> rest[2], instructions |-> rest[3], passage |-> rest[4],
   questions |-> qs]

\* The optional fields: all absent, all of a wrong type, all strings
SampleRests ==
  {<<Undefined, Undefined, Undefined, Undefined>>,
   <<Num(1), Null, Obj, Num(5)>>,
   <<Str(<<"G", "L">>), Str(<<"4", "5", " ", "m", "i", "n", "u", "t", "e", "s">>), Str(<<"R", "e", "a", "d", " ", "c", "a", "r", "e", "f", "u", "l", "l", "y", ".">>), Str(<<"A", " ", "c", "a", "t", " ", "s", "a", "t", ".">>)>>}

SampleQuestionArrays ==
  {Undefined, Obj, Arr(<<>>)}
    \cup {Arr(els) : els \in SeqsUpTo(SampleElements, MaxQuestions) \ {<<>>}}

SampleBodies ==
  {Body(k, Undefined, Undefined, <<Undefined, Undefined, Undefined, Undefined>>,
        Undefined) : k \in {"invalid", "null", "number"}}
    \cup {Body("object", title, subject, rest, qs) :
            title \in {Str(<<"Y", "e", "a", "r", " ", "5", " ", "M", "a", "t", "h", "s", " ", "U+2014", " ", "M", "o", "c", "k", " ", "#", "1", "!">>), Undefined, Num(5)},
            subject \in {Str(<<"m", "a", "t", "h", "s">>), Null},
            rest \in SampleRests,
            qs \in SampleQuestionArrays}

MaxTitleLen == 3

\* Titles given to safeFilename: every short one of these characters; the
\* title of the example; and long ones, of a run of letters of about
\* stemLimit, a separator and a tail
TitleChars == {"a", "Z", "5", " ", "-", <<"U+2014">>[1]}

LongTitles ==
  {Rep("a", k) \o sep \o tail :
     k \in (stemLimit - 2)..(stemLimit + 1),
     sep \in {<<>>, <<" ">>, <<" ", "-", " ">>},
     tail \in {<<>>, <<"b">>, <<"!">>}}

Titles ==
  SeqsUpTo(TitleChars, MaxTitleLen) \cup LongTitles \cup {<<"Y", "e", "a", "r", " ", "5", " ", "M", "a", "t", "h", "s", " ", "U+2014", " ", "M", "o", "c", "k", " ", "#", "1", "!">>}

\* The value of payload when no request of the AI route is running
NoPayload == [kind |-> "none", subject |-> Undefined, questionCount |-> Undefined]

\* The value of parsed before the model has answered
NoParsed ==
  [kind |-> "none", title |-> Undefined, subject |-> Undefined, board |-> Undefined,
   timeAllowed |-> Undefined, instructions |-> Undefined, passage |-> Undefined,
   questions |-> Undefined]

\* Texts given to wrapText: words of two letters, spaces, line breaks and
\* carriage returns
WrapChars == {"a", "b", " ", "\n", "\r"}

\* Texts given to show: a letter and the metacharacters of a literal string
ShowChars == {"a", "(", ")", "\\"}

(***************************************************************************)
(* buildPdfFromLines as a run: one step per Line, then the objects, then   *)
(* the bytes                                                               *)
(***************************************************************************)
\* PlaceOne with the bug of leaving the loop body after a page break, so that
\* the Line that did not fit is not placed on the new page.
PlaceOneSkipsOnBreak(pgs, cur, yy, ln) ==
  LET lh == LineHeight(ln)
      full == PageFull(yy, lh)
  IN IF full
     THEN [pages |-> Append(pgs, endText(cur)), current |-> OpenPage,
           y |-> PAGE_H - M_TOP]
     ELSE [pages |-> pgs,
           current |-> Append(show(setFont(cur, LineSize(ln)), ln.text),
                              <<"0", " ", "-">> \o ToFixed2(lh) \o <<" ", "T", "d">>),
           y |-> yy - lh]

\* PlaceOne with the bug of a newPage that does not push the page it closes.
PlaceOneNoPush(pgs, cur, yy, ln) ==
  LET lh == LineHeight(ln)
      full == PageFull(yy, lh)
      y0 == IF full THEN PAGE_H - M_TOP ELSE yy
      cur0 == IF full THEN OpenPage ELSE cur
  IN [pages |-> pgs,
      current |-> Append(show(setFont(cur0, LineSize(ln)), ln.text),
                         <<"0", " ", "-">> \o ToFixed2(lh) \o <<" ", "T", "d">>),
      y |-> y0 - lh]

\* One iteration of the for loop over lines, on the page list, the current
\* page and the cursor: the page break when the Line does not fit, then the
\* font, the text and the move down.
PlaceOne(pgs, cur, yy, ln) ==
  LET lh == LineHeight(ln)
      full == PageFull(yy, lh)
      y0 == IF full THEN PAGE_H - M_TOP ELSE yy
      cur0 == IF full THEN OpenPage ELSE cur
  IN [pages |-> IF full THEN Append(pgs, endText(cur)) ELSE pgs,
      current |-> Append(show(setFont(cur0, LineSize(ln)), ln.text),
                         <<"0", " ", "-">> \o ToFixed2(lh) \o <<" ", "T", "d">>),
      y |-> y0 - lh]

PlaceLine ==
  /\ pc = "layout"
  /\ idx < Len(lines)
  /\ LET st == PlaceOne(pages, current, y, lines[idx + 1])
     IN /\ pages' = st.pages
        /\ current' = st.current
        /\ y' = st.y
  /\ idx' = idx + 1
  /\ UNCHANGED <<lines, pc, finalBodies, offsets, xrefStart, out, paper, textVars, postVars, extVars>>

\* After the loop: endText(); pages.push(current)
EndLayout ==
  /\ pc = "layout"
  /\ idx = Len(lines)
  /\ pages' = Append(pages, endText(current))
  /\ pc' = "objects"
  /\ UNCHANGED <<lines, idx, y, current, finalBodies, offsets, xrefStart, out, paper, textVars, postVars, extVars>>

BuildObjects ==
  /\ pc = "objects"
  /\ finalBodies' = FinalBodies(pages)
  /\ pc' = "compose"
  /\ UNCHANGED <<lines, idx, y, current, pages, offsets, xrefStart, out, paper, textVars, postVars, extVars>>

Compose ==
  /\ pc = "compose"
  /\ LET st == WriteObjects(finalBodies, 1,
                 [offsets |-> <<0>>, bytes |-> Encode(pdfHeader),
                  cursor |-> ChunkLength(pdfHeader)])
     IN /\ offsets' = st.offsets
        /\ xrefStart' = st.cursor
        /\ out' = st.bytes \o Encode(xrefTable(finalBodies, st.offsets))
                     \o Encode(trailer(finalBodies, st.cursor))
  /\ pc' = "done"
  /\ UNCHANGED <<lines, idx, y, current, pages, finalBodies, paper, textVars, postVars, extVars>>

\* The state when the for loop of buildPdfFromLines is about to start, or
\* (at "paper") when its argument is still to be built
LayoutStart(ls, at) ==
  /\ lines = ls
  /\ pc = at
  /\ idx = 0
  /\ y = PAGE_H - M_TOP
  /\ current = OpenPage
  /\ pages = <<>>
  /\ finalBodies = <<>>
  /\ offsets = <<>>
  /\ xrefStart = 0
  /\ out = <<>>

\* No text function is running
TextIdle ==
  /\ text = <<>>
  /\ maxChars = 0
  /\ wrapped = <<>>
  /\ shown = <<>>
  /\ rewrapped = <<>>
  /\ stem = <<>>

PostIdle == req = NoBody /\ response = NoResponse

\* No concurrent request is running
ConcIdle == calls = <<>> /\ layout = <<>>

\* No request of the AI route is running
AiIdle ==
  /\ payload = NoPayload
  /\ parsed = NoParsed
  /\ qCount = 0
  /\ generated = NoPaper
  /\ browser = "none"
  /\ pending = "none"

\* String.prototype.includes
includes(s, sub) ==
  \E i \in 0..(Len(s) - Len(sub)) : SubSeq(s, i + 1, i + Len(sub)) = sub

slugToSubjectKey(slug) ==
  IF includes(slug, <<"m", "a", "t", "h">>) THEN <<"m", "a", "t", "h", "s">>
  ELSE IF \/ includes(slug, <<"e", "n", "g", "l", "i", "s", "h">>)
          \/ includes(slug, <<"s", "p", "a", "g">>)
          \/ includes(slug, <<"c", "o", "m", "p", "r", "e", "h", "e", "n", "s", "i", "o", "n">>) THEN <<"e", "n", "g", "l", "i", "s", "h">>
  ELSE IF includes(slug, <<"n", "o", "n", "-", "v", "e", "r", "b", "a", "l">>) THEN <<"n", "o", "n", "-", "v", "e", "r", "b", "a", "l", "-", "r", "e", "a", "s", "o", "n", "i", "n", "g">>
  ELSE IF includes(slug, <<"v", "e", "r", "b", "a", "l">>) THEN <<"v", "e", "r", "b", "a", "l", "-", "r", "e", "a", "s", "o", "n", "i", "n", "g">>
  ELSE IF includes(slug, <<"m", "i", "x", "e", "d">>) THEN <<"m", "i", "x", "e", "d">>
  ELSE <<"m", "a", "t", "h", "s">>

\* The paper sets given to ExamPapersClient, of each its slug and its title:
\* one of each subject, one without a title
paperSets ==
  <<[slug |-> <<"m", "a", "t", "h", "s", "-", "m", "o", "c", "k">>, title |-> <<"M", "a", "t", "h", "s">>],
    [slug |-> <<"r", "e", "a", "d", "i", "n", "g", "-", "c", "o", "m", "p", "r", "e", "h", "e", "n", "s", "i", "o", "n">>, title |-> <<"R", "e", "a", "d", "i", "n", "g">>],
    [slug |-> <<"n", "o", "n", "-", "v", "e", "r", "b", "a", "l", "-", "s", "e", "t">>, title |-> <<>>]>>

\* selected when no paper set is: null
NoSelection == 0

\* initial of ExamPaperModal for the paper set at index p of paperSets, or
\* for null
initial(p) ==
  LET subjectKey == IF p # NoSelection THEN slugToSubjectKey(paperSets[p].slug)
                    ELSE <<"m", "a", "t", "h", "s">>
      baseTitle == IF p # NoSelection /\ paperSets[p].title # <<>>
                   THEN paperSets[p].title
                   ELSE <<"1", "1", "+", " ", "P", "r", "a", "c", "t", "i", "c", "e", " ", "P", "a", "p", "e", "r">>
  IN [subject |-> subjectKey,
      paperTitle |-> baseTitle,
      schoolName |-> <<>>,
      yearGroup |-> <<"Y", "e", "a", "r", " ", "5">>,
      examBoard |-> <<"G", "L">>,
      difficulty |-> <<"i", "n", "t", "e", "r", "m", "e", "d", "i", "a", "t", "e">>,
      focusAreas |-> <<>>,
      questionCount |-> 20,
      includePassage |->
        \/ subjectKey = <<"e", "n", "g", "l", "i", "s", "h">>
        \/ p # NoSelection /\ includes(paperSets[p].slug, <<"c", "o", "m", "p", "r", "e", "h", "e", "n", "s", "i", "o", "n">>)]

\* The modal as it is mounted: no paper set selected, closed
ModalIdle ==
  /\ selected = NoSelection
  /\ open = FALSE
  /\ form = initial(NoSelection)
  /\ loading = FALSE
  /\ error = <<>>
  /\ outstanding = 0

ExtIdle == ConcIdle /\ AiIdle /\ ModalIdle

Init ==
  /\ \E ls \in SeqsUpTo(LineValues, MaxLines) : LayoutStart(ls, "layout")
  /\ paper = NoPaper
  /\ TextIdle
  /\ PostIdle
  /\ ExtIdle

Next == PlaceLine \/ EndLayout \/ BuildObjects \/ Compose

Spec == Init /\ [][Next]_vars

(***************************************************************************)
(* buildPdfFromLines(buildPaperLines(paper)) as a run                      *)
(***************************************************************************)
BuildPaperLines ==
  /\ pc = "paper"
  /\ lines' = buildPaperLines(paper)
  /\ pc' = "layout"
  /\ UNCHANGED <<idx, y, current, pages, finalBodies, offsets, xrefStart, out,
                 paper, textVars, postVars, extVars>>

InitPaper ==
  /\ LayoutStart(<<>>, "paper")
  /\ paper \in SamplePapers
  /\ TextIdle
  /\ PostIdle
  /\ ExtIdle

NextPaper == BuildPaperLines \/ PlaceLine \/ EndLayout \/ BuildObjects \/ Compose

SpecPaper == InitPaper /\ [][NextPaper]_vars

(***************************************************************************)
(* wrapText as a run                                                       *)
(***************************************************************************)
WrapText ==
  /\ pc = "wrap"
  /\ wrapped' = wrapText(text, maxChars)
  /\ pc' = "wrapped"
  /\ UNCHANGED <<lines, idx, y, current, pages, finalBodies, offsets, xrefStart,
                 out, paper, text, maxChars, shown, rewrapped, stem, postVars, extVars>>

InitWrap ==
  /\ LayoutStart(<<>>, "wrap")
  /\ paper = NoPaper
  /\ text \in SeqsUpTo(WrapChars, MaxWrapLen)
  /\ maxChars \in 0..MaxWrapWidth
  /\ wrapped = <<>>
  /\ shown = <<>>
  /\ rewrapped = <<>>
  /\ stem = <<>>
  /\ PostIdle
  /\ ExtIdle

\* wrapText again, on the lines it returned joined by line breaks
ReWrap ==
  /\ pc = "wrapped"
  /\ rewrapped' = wrapText(Join(wrapped, <<"\n">>), maxChars)
  /\ pc' = "rewrapped"
  /\ UNCHANGED <<lines, idx, y, current, pages, finalBodies, offsets, xrefStart,
                 out, paper, text, maxChars, wrapped, shown, stem, postVars, extVars>>

NextWrap == WrapText \/ ReWrap

SpecWrap == InitWrap /\ [][NextWrap]_vars

(***************************************************************************)
(* show as a run                                                           *)
(***************************************************************************)
Show ==
  /\ pc = "show"
  /\ shown' = show(<<>>, text)[1]
  /\ pc' = "shown"
  /\ UNCHANGED <<lines, idx, y, current, pages, finalBodies, offsets, xrefStart,
                 out, paper, text, maxChars, wrapped, rewrapped, stem,
                 postVars, extVars>>

InitShow ==
  /\ LayoutStart(<<>>, "show")
  /\ paper = NoPaper
  /\ text \in SeqsUpTo(ShowChars, MaxShowLen)
  /\ maxChars = 0
  /\ wrapped = <<>>
  /\ shown = <<>>
  /\ rewrapped = <<>>
  /\ stem = <<>>
  /\ PostIdle
  /\ ExtIdle

SpecShow == InitShow /\ [][Show]_vars

(***************************************************************************)
(* safeFilename as a run                                                   *)
(***************************************************************************)
SafeFilename ==
  /\ pc = "filename"
  /\ stem' = safeFilename(text)
  /\ pc' = "named"
  /\ UNCHANGED <<lines, idx, y, current, pages, finalBodies, offsets, xrefStart,
                 out, paper, text, maxChars, wrapped, shown, rewrapped, postVars, extVars>>

InitFilename ==
  /\ LayoutStart(<<>>, "filename")
  /\ paper = NoPaper
  /\ text \in Titles
  /\ maxChars = 0
  /\ wrapped = <<>>
  /\ shown = <<>>
  /\ rewrapped = <<>>
  /\ stem = <<>>
  /\ PostIdle
  /\ ExtIdle

SpecFilename == InitFilename /\ [][SafeFilename]_vars

(***************************************************************************)
(* POST as a run                                                           *)
(***************************************************************************)
\* req.json() throws
PostInvalidJson ==
  /\ pc = "post"
  /\ req.kind = "invalid"
  /\ response' = BadRequest("Invalid JSON body")
  /\ pc' = "responded"
  /\ UNCHANGED <<lines, idx, y, current, pages, finalBodies, offsets, xrefStart,
                 out, paper, textVars, req, extVars>>

\* The body fails the required-shape check
PostBadShape ==
  /\ pc = "post"
  /\ req.kind # "invalid"
  /\ ~ValidBody(req)
  /\ response' = BadRequest("Body must include { title: string, subject: string, questions: [{ questionText, options[] }] }")
  /\ pc' = "responded"
  /\ UNCHANGED <<lines, idx, y, current, pages, finalBodies, offsets, xrefStart,
                 out, paper, textVars, req, extVars>>

\* The callback of paper.questions.map throws
PostThrows ==
  /\ pc = "post"
  /\ req.kind # "invalid"
  /\ ValidBody(req)
  /\ MapThrows(req)
  /\ response' = Thrown("TypeError")
  /\ pc' = "threw"
  /\ UNCHANGED <<lines, idx, y, current, pages, finalBodies, offsets, xrefStart,
                 out, paper, textVars, req, extVars>>

\* const lines = buildPaperLines({ ... }); buildPdfFromLines(lines) follows
\* as PlaceLine, EndLayout, BuildObjects and Compose
PostBuildLines ==
  /\ pc = "post"
  /\ req.kind # "invalid"
  /\ ValidBody(req)
  /\ ~MapThrows(req)
  /\ paper' = NormalizedPaper(req)
  /\ lines' = buildPaperLines(NormalizedPaper(req))
  /\ pc' = "layout"
  /\ UNCHANGED <<idx, y, current, pages, finalBodies, offsets, xrefStart, out,
                 textVars, postVars, extVars>>

\* return new Response(pdfBytes, ...)
PostRespond ==
  /\ pc = "done"
  /\ req.kind # "none"
  /\ response' = PdfResponse(out, safeFilename(req.title.s) \o <<".", "p", "d", "f">>)
  /\ pc' = "responded"
  /\ UNCHANGED <<lines, idx, y, current, pages, finalBodies, offsets, xrefStart,
                 out, paper, textVars, req, extVars>>

InitPost ==
  /\ LayoutStart(<<>>, "post")
  /\ paper = NoPaper
  /\ TextIdle
  /\ req \in SampleBodies
  /\ response = NoResponse
  /\ ExtIdle

NextPost ==
  \/ PostInvalidJson
  \/ PostBadShape
  \/ PostThrows
  \/ PostBuildLines
  \/ PlaceLine
  \/ EndLayout
  \/ BuildObjects
  \/ Compose
  \/ PostRespond

SpecPost == InitPost /\ [][NextPost]_vars

(***************************************************************************)
(* The AI route, src/unnamed/part_000: clampInt, normalizePaper, POST      *)
(***************************************************************************)
\* A number that is no integer, num / den with den > 1
Frac(num, den) == [t |-> "number", s |-> <<>>, n |-> num, a |-> <<den>>]

\* Infinity, which JSON.parse gives for 1e999
NonFinite == [t |-> "number", s |-> <<"I", "n", "f", "i", "n", "i", "t", "y">>, n |-> 0, a |-> <<>>]

\* Number.isFinite of a number
IsFinite(v) == v.s = <<>>

\* Math.floor of a finite number
Floor(v) == IF v.a = <<>> THEN v.n ELSE v.n \div v.a[1]

\* clampInt with the bug of no upper limit.
clampIntMinOnly(n, min, max, fallback) ==
  LET x == IF n.t = "number" /\ IsFinite(n) THEN Floor(n) ELSE fallback
  IN IF x < min THEN min ELSE x

clampInt(n, min, max, fallback) ==
  LET x == IF n.t = "number" /\ IsFinite(n) THEN Floor(n) ELSE fallback
      capped == IF max < x THEN max ELSE x
  IN IF min > capped THEN min ELSE capped

\* An element of the questions array of the paper the model returned
AiElement(kind, id, qt, opts, ans, expl) ==
  [kind |-> kind, id |-> id, questionText |-> qt, options |-> opts,
   correctAnswerIndex |-> ans, explanation |-> expl]

\* Array.isArray(p.questions) ? p.questions : []
QuestionsOf(p) == IF p.questions.t = "array" THEN p.questions.a ELSE <<>>

\* normalizePaper throws a TypeError: p is null, or one of the elements it
\* maps is
normalizeThrows(p, count) ==
  \/ p.kind = "null"
  \/ \E i \in 1..Len(Slice0(QuestionsOf(p), count)) : QuestionsOf(p)[i].kind = "null"

\* The callback of questions.slice(0, qCount).map
fixQuestion(q, i) ==
  LET options == IF q.options.t = "array"
                 THEN [j \in 1..Len(q.options.a) |-> Str(safeText(q.options.a[j], <<>>))]
                 ELSE <<>>
      opt4 == Slice0(options, 4)
  IN [id |-> IF q.id.t \in {"undefined", "null"} THEN Str(NatStr(i)) ELSE q.id,
      questionText |-> Str(safeText(q.questionText, <<>>)),
      options |-> Arr(opt4 \o [j \in 1..(4 - Len(opt4)) |-> Str(<<>>)]),
      correctAnswerIndex |-> Num(clampInt(q.correctAnswerIndex, 0, 3, 0)),
      explanation |-> Str(safeText(q.explanation, <<>>))]

\* normalizePaper, for count >= 0
normalizePaper(p, count) ==
  LET fixed == Slice0(QuestionsOf(p), count)
  IN [title |-> Str(safeText(p.title, <<"1", "1", "+", " ", "P", "r", "a", "c", "t", "i", "c", "e", " ", "P", "a", "p", "e", "r">>)),
      subject |-> Str(safeText(p.subject, <<"m", "a", "t", "h", "s">>)),
      board |-> Str(safeText(p.board, <<"S", "t", "a", "n", "d", "a", "r", "d">>)),
      timeAllowed |-> Str(safeText(p.timeAllowed, <<"5", "0", " ", "m", "i", "n", "u", "t", "e", "s">>)),
      instructions |-> Str(safeText(p.instructions,
                         <<"A", "n", "s", "w", "e", "r", " ", "a", "l", "l", " ", "q", "u", "e", "s", "t", "i", "o", "n", "s", ".", " ", "C", "h", "o", "o", "s", "e", " ", "t", "h", "e", " ", "b", "e", "s", "t", " ", "a", "n", "s", "w", "e", "r", " ", "f", "o", "r", " ", "e", "a", "c", "h", " ", "q", "u", "e", "s", "t", "i", "o", "n", ".">>)),
      passage |-> Str(safeText(p.passage, <<>>)),
      questions |-> [i \in 1..Len(fixed) |-> fixQuestion(fixed[i], i)]]

\* renderExamPaperHtml: String.fromCharCode(65 + (q.correctAnswerIndex ?? 0))
answerLetter(q) ==
  fromCharCode(65 + (IF q.correctAnswerIndex.t \in {"undefined", "null"} THEN 0
                     ELSE q.correctAnswerIndex.n))

\* CloseOn with the bug of closing the browser after the return only, without
\* a finally.
CloseOnReturnOnly(outcome) == outcome = "return"

\* Whether browser.close() runs when the try block ended with outcome: it is
\* in the finally
CloseOn(outcome) == TRUE

\* Question counts asked for: none, a string, below 10, 10, between, 30,
\* above 30, 10.5 and Infinity
SampleCounts ==
  {Undefined, Str(<<"1", "5">>), Num(0 - 5), Num(9), Num(10), Num(11), Num(30), Num(31),
   Frac(21, 2), NonFinite}

\* Bodies of the AI route: not JSON, null, without a subject, and with a
\* subject and every question count
SamplePayloads ==
  {[kind |-> k, subject |-> Undefined, questionCount |-> Undefined] :
     k \in {"invalid", "null", "object"}}
    \cup {[kind |-> "object", subject |-> Str(<<"m", "a", "t", "h", "s">>), questionCount |-> c] :
            c \in SampleCounts}

\* Elements in the order the long papers repeat them: a well-formed one; six
\* options of several types, index 9, no id; one option, index -1; no
\* options, index 2.5; index Infinity; index "2"
AiElementCycle ==
  <<AiElement("object", Num(7), Str(<<"W", "h", "a", "t", " ", "i", "s", " ", "2", "+", "2", "?">>),
              Arr(<<Str(<<"3">>), Str(<<"4">>), Str(<<"5">>), Str(<<"6">>)>>), Num(2),
              Str(<<"2", "+", "2", "=", "4">>)),
    AiElement("object", Undefined, Num(7),
              Arr(<<Str(<<"a">>), Num(3), Null, Str(<<"b">>), Str(<<"c">>), Str(<<"d">>)>>),
              Num(9), Undefined),
    AiElement("object", Null, Str(<<"q">>), Arr(<<Str(<<"x", "\\", "r">>)>>), Num(0 - 1), Str(<<"e">>)),
    AiElement("object", Str(<<"q", "4">>), Str(<<"q">>), Undefined, Frac(5, 2), Str(<<"e">>)),
    AiElement("object", Num(5), Str(<<"q">>), Arr(<<>>), NonFinite, Str(<<"e">>)),
    AiElement("object", Num(6), Str(<<"q">>), Obj, Str(<<"2">>), Null)>>

AiElements ==
  {AiElementCycle[i] : i \in 1..Len(AiElementCycle)}
    \cup {AiElement("null", Undefined, Undefined, Undefined, Undefined, Undefined),
          AiElement("number", Undefined, Undefined, Undefined, Undefined, Undefined)}

\* A list of n elements, those of AiElementCycle over and over
LongQuestions(n) == [i \in 1..n |-> AiElementCycle[((i - 1) % Len(AiElementCycle)) + 1]]

ParsedPaper(kind, qs) ==
  [kind |-> kind, title |-> Str(<<"M", "a", "t", "h", "s", " ", "U+2014", " ", "M", "o", "c", "k", " ", "#", "1">>), subject |-> Num(1),
   board |-> Undefined, timeAllowed |-> Null, instructions |-> Str(<<"R", "e", "a", "d", ".", "\\", "r">>),
   passage |-> Undefined, questions |-> qs]

\* What the model returned, parsed: papers of up to MaxQuestions elements;
\* papers of 10, 11 and 31 questions; a paper whose questions are no array;
\* and null
SampleParsed ==
  {ParsedPaper("object", Arr(els)) : els \in SeqsUpTo(AiElements, MaxQuestions)}
    \cup {ParsedPaper("object", Arr(LongQuestions(n))) : n \in {10, 11, 31}}
    \cup {ParsedPaper("object", Obj), ParsedPaper("null", Undefined)}

ServerError(message) ==
  [status |-> 500, contentType |-> "application/json", error |-> message,
   disposition |-> <<>>, cacheControl |-> "", bytes |-> <<>>]

\* req.json() throws
AiInvalidJson ==
  /\ pc = "ai"
  /\ payload.kind = "invalid"
  /\ response' = BadRequest("Invalid JSON body")
  /\ pc' = "responded"
  /\ UNCHANGED <<lines, idx, y, current, pages, finalBodies, offsets, xrefStart,
                 out, paper, textVars, req, concVars, modalVars, payload, parsed, qCount,
                 generated, browser, pending>>

\* !payload || typeof payload.subject !== 'string'
AiMissingSubject ==
  /\ pc = "ai"
  /\ payload.kind # "invalid"
  /\ payload.kind = "null" \/ payload.subject.t # "string"
  /\ response' = BadRequest("Missing required field: subject")
  /\ pc' = "responded"
  /\ UNCHANGED <<lines, idx, y, current, pages, finalBodies, offsets, xrefStart,
                 out, paper, textVars, req, concVars, modalVars, payload, parsed, qCount,
                 generated, browser, pending>>

\* generatePaperWithOpenAI throws before it has a paper to normalise: no API
\* key, a failed fetch, a status that is not ok, no output text, or output
\* that is not JSON
AiGenerateFails ==
  /\ pc = "ai"
  /\ payload.kind = "object"
  /\ payload.subject.t = "string"
  /\ qCount' = clampInt(payload.questionCount, 10, 30, 20)
  /\ response' = ServerError("Failed to generate exam paper")
  /\ pc' = "responded"
  /\ UNCHANGED <<lines, idx, y, current, pages, finalBodies, offsets, xrefStart,
                 out, paper, textVars, req, concVars, modalVars, payload, parsed, generated,
                 browser, pending>>

\* generatePaperWithOpenAI gets a paper and normalises it; a TypeError of
\* normalizePaper is caught by POST like any other
AiGenerate ==
  /\ pc = "ai"
  /\ payload.kind = "object"
  /\ payload.subject.t = "string"
  /\ \E p \in SampleParsed :
       LET count == clampInt(payload.questionCount, 10, 30, 20)
       IN /\ parsed' = p
          /\ qCount' = count
          /\ IF normalizeThrows(p, count)
             THEN /\ response' = ServerError("TypeError")
                  /\ pc' = "responded"
                  /\ UNCHANGED generated
             ELSE /\ generated' = normalizePaper(p, count)
                  /\ pc' = "launch"
                  /\ UNCHANGED response
  /\ UNCHANGED <<lines, idx, y, current, pages, finalBodies, offsets, xrefStart,
                 out, paper, textVars, req, concVars, modalVars, payload, browser, pending>>

\* renderExamPaperHtml(paper); puppeteer.launch(...) resolves
AiLaunch ==
  /\ pc = "launch"
  /\ browser' = "open"
  /\ pc' = "newPage"
  /\ UNCHANGED <<lines, idx, y, current, pages, finalBodies, offsets, xrefStart,
                 out, paper, textVars, postVars, concVars, modalVars, payload, parsed, qCount,
                 generated, pending>>

\* chromium.executablePath() or puppeteer.launch(...) rejects: POST throws
AiLaunchFails ==
  /\ pc = "launch"
  /\ response' = Thrown("Error")
  /\ pc' = "threw"
  /\ UNCHANGED <<lines, idx, y, current, pages, finalBodies, offsets, xrefStart,
                 out, paper, textVars, req, concVars, modalVars, aiVars>>

\* One of browser.newPage(), page.setContent(...) and page.pdf(...) resolves
AiTryStep ==
  /\ pc \in {"newPage", "setContent", "pdf"}
  /\ pc' = CASE pc = "newPage" -> "setContent"
              [] pc = "setContent" -> "pdf"
              [] pc = "pdf" -> "finally"
  /\ pending' = IF pc = "pdf" THEN "return" ELSE pending
  /\ UNCHANGED <<lines, idx, y, current, pages, finalBodies, offsets, xrefStart,
                 out, paper, textVars, postVars, concVars, modalVars, payload, parsed, qCount,
                 generated, browser>>

\* One of them rejects
AiTryThrows ==
  /\ pc \in {"newPage", "setContent", "pdf"}
  /\ pc' = "finally"
  /\ pending' = "throw"
  /\ UNCHANGED <<lines, idx, y, current, pages, finalBodies, offsets, xrefStart,
                 out, paper, textVars, postVars, concVars, modalVars, payload, parsed, qCount,
                 generated, browser>>

\* finally { await browser.close() }, then the return or the throw
AiFinally ==
  /\ pc = "finally"
  /\ browser' = IF CloseOn(pending) THEN "closed" ELSE browser
  /\ IF pending = "return"
     THEN /\ response' = PdfResponse(<<"%", "P", "D", "F">>, safeFilename(generated.title.s) \o <<".", "p", "d", "f">>)
          /\ pc' = "responded"
     ELSE /\ response' = Thrown("Error")
          /\ pc' = "threw"
  /\ UNCHANGED <<lines, idx, y, current, pages, finalBodies, offsets, xrefStart,
                 out, paper, textVars, req, concVars, modalVars, payload, parsed, qCount,
                 generated, pending>>

InitAi ==
  /\ LayoutStart(<<>>, "ai")
  /\ paper = NoPaper
  /\ TextIdle
  /\ PostIdle
  /\ ConcIdle
  /\ payload \in SamplePayloads
  /\ parsed = NoParsed
  /\ qCount = 0
  /\ generated = NoPaper
  /\ browser = "none"
  /\ pending = "none"
  /\ ModalIdle

NextAi ==
  \/ AiInvalidJson
  \/ AiMissingSubject
  \/ AiGenerateFails
  \/ AiGenerate
  \/ AiLaunch
  \/ AiLaunchFails
  \/ AiTryStep
  \/ AiTryThrows
  \/ AiFinally

SpecAi == InitAi /\ [][NextAi]_vars

(***************************************************************************)
(* Concurrent POSTs                                                        *)
(***************************************************************************)
Requests == {1, 2}

\* Bodies of concurrent requests: a paper of one page, a paper of two pages
\* (its passage has 46 lines), and a body without a title
CallBodies ==
  {Body("object", Str(<<"Y", "e", "a", "r", " ", "5", " ", "M", "a", "t", "h", "s", " ", "U+2014", " ", "M", "o", "c", "k", " ", "#", "1", "!">>), Str(<<"m", "a", "t", "h", "s">>),
        <<Undefined, Undefined, Undefined, Undefined>>,
        Arr(<<Element("object", Str(<<"W", "h", "a", "t", " ", "i", "s", " ", "2", "+", "2", "?">>),
                      Arr(<<Str(<<"3">>), Str(<<"4">>)>>), Num(1), Str(<<"2", "+", "2", "=", "4">>))>>)),
   Body("object", Str(<<"S", "a", "m", "p", "l", "e">>), Str(<<"e", "n", "g", "l", "i", "s", "h">>),
        <<Str(<<"G", "L">>), Num(1), Undefined, Str(<<"A", " ", "c", "a", "t", " ", "s", "a", "t", ".">> \o Rep("\n", 45))>>,
        Arr(<<Element("object", Num(7), Arr(<<Str(<<"(", "x", ")">>)>>), Num(0), Undefined)>>)),
   Body("object", Undefined, Str(<<"m", "a", "t", "h", "s">>),
        <<Undefined, Undefined, Undefined, Undefined>>, Arr(<<>>))}

\* ScopeOf with the bug of pages, current and y declared at module level, so
\* that every request uses the same ones.
ScopeOfModule(r) == 1

\* The scope that holds pages, current and y for request r: they are
\* declared in the body of buildPdfFromLines, one set for each call
ScopeOf(r) == r

\* const pages = []; let y = PAGE_H - M_TOP; let current = { ops: [] };
\* beginText(); setFont(defaultFontSize); moveTo(M_LEFT, y)
NewLayout == [pages |-> <<>>, current |-> OpenPage, y |-> PAGE_H - M_TOP]

NewCall(b) ==
  [req |-> b, pc |-> "post", lines |-> <<>>, idx |-> 0, finalBodies |-> <<>>,
   offsets |-> <<>>, xrefStart |-> 0, out |-> <<>>, response |-> NoResponse]

\* Request r runs POST up to the start of the for loop of buildPdfFromLines,
\* or up to its 400 Response
CallPost(r) ==
  /\ calls[r].pc = "post"
  /\ IF ValidBody(calls[r].req) /\ ~MapThrows(calls[r].req)
     THEN /\ calls' = [calls EXCEPT
                         ![r].lines = buildPaperLines(NormalizedPaper(calls[r].req)),
                         ![r].pc = "layout"]
          /\ layout' = [layout EXCEPT ![ScopeOf(r)] = NewLayout]
     ELSE /\ calls' = [calls EXCEPT
                         ![r].response = BadRequest("Body must include { title: string, subject: string, questions: [{ questionText, options[] }] }"),
                         ![r].pc = "responded"]
          /\ UNCHANGED layout
  /\ UNCHANGED <<pdfVars, paper, textVars, postVars, aiVars, modalVars>>

\* One iteration of the for loop of request r
CallPlaceLine(r) ==
  /\ calls[r].pc = "layout"
  /\ calls[r].idx < Len(calls[r].lines)
  /\ LET sc == ScopeOf(r)
         st == PlaceOne(layout[sc].pages, layout[sc].current, layout[sc].y,
                        calls[r].lines[calls[r].idx + 1])
     IN layout' = [layout EXCEPT ![sc] = st]
  /\ calls' = [calls EXCEPT ![r].idx = calls[r].idx + 1]
  /\ UNCHANGED <<pdfVars, paper, textVars, postVars, aiVars, modalVars>>

\* After the loop of request r: endText(); pages.push(current); then the
\* objects
CallBuildObjects(r) ==
  /\ calls[r].pc = "layout"
  /\ calls[r].idx = Len(calls[r].lines)
  /\ LET sc == ScopeOf(r)
         pgs == Append(layout[sc].pages, endText(layout[sc].current))
     IN /\ layout' = [layout EXCEPT ![sc].pages = pgs]
        /\ calls' = [calls EXCEPT ![r].finalBodies = FinalBodies(pgs),
                                  ![r].pc = "compose"]
  /\ UNCHANGED <<pdfVars, paper, textVars, postVars, aiVars, modalVars>>

\* The bytes of request r
CallCompose(r) ==
  /\ calls[r].pc = "compose"
  /\ LET bodies == calls[r].finalBodies
         st == WriteObjects(bodies, 1,
                 [offsets |-> <<0>>, bytes |-> Encode(pdfHeader),
                  cursor |-> ChunkLength(pdfHeader)])
     IN calls' = [calls EXCEPT
                    ![r].offsets = st.offsets,
                    ![r].xrefStart = st.cursor,
                    ![r].out = st.bytes \o Encode(xrefTable(bodies, st.offsets))
                                 \o Encode(trailer(bodies, st.cursor)),
                    ![r].pc = "done"]
  /\ UNCHANGED <<layout, pdfVars, paper, textVars, postVars, aiVars, modalVars>>

\* return new Response(pdfBytes, ...) of request r
CallRespond(r) ==
  /\ calls[r].pc = "done"
  /\ calls' = [calls EXCEPT
                 ![r].response = PdfResponse(calls[r].out,
                                   safeFilename(calls[r].req.title.s) \o <<".", "p", "d", "f">>),
                 ![r].pc = "responded"]
  /\ UNCHANGED <<layout, pdfVars, paper, textVars, postVars, aiVars, modalVars>>

InitCalls ==
  /\ LayoutStart(<<>>, "calls")
  /\ paper = NoPaper
  /\ TextIdle
  /\ PostIdle
  /\ calls \in [Requests -> {NewCall(b) : b \in CallBodies}]
  /\ layout = [sc \in Requests |-> NewLayout]
  /\ AiIdle
  /\ ModalIdle

NextCalls ==
  \E r \in Requests :
    \/ CallPost(r)
    \/ CallPlaceLine(r)
    \/ CallBuildObjects(r)
    \/ CallCompose(r)
    \/ CallRespond(r)

SpecCalls == InitCalls /\ [][NextCalls]_vars

(***************************************************************************)
(* ExamPapersClient and ExamPaperModal                                     *)
(***************************************************************************)
\* Fetches that may be outstanding at once in the model
MaxOutstanding == 2

\* The effect of ExamPaperModal on [initial, open]: when the paper set or
\* open has changed, to p and o, the form is initial again, the error is empty
\* and loading is false
Effect(p, o) ==
  IF p # selected \/ o # open
  THEN /\ form' = initial(p)
       /\ error' = <<>>
       /\ loading' = FALSE
  ELSE UNCHANGED <<form, error, loading>>

\* onClose as ExamPapersClient gives it to the modal, and the effect after it
onClose ==
  /\ open' = FALSE
  /\ selected' = NoSelection
  /\ Effect(NoSelection, FALSE)

\* The modal shows: if (!open || !paper) return null
Rendered == open /\ selected # NoSelection

\* The button of the card of paper set p: onDownload, and the effect after it
OnDownload(p) ==
  /\ pc = "modal"
  /\ selected' = p
  /\ open' = TRUE
  /\ Effect(p, TRUE)
  /\ UNCHANGED <<pdfVars, paper, textVars, postVars, concVars, aiVars, outstanding>>

\* What the fields of the form are changed to
FormEdits ==
  {<<"questionCount", 10>>, <<"includePassage", TRUE>>, <<"includePassage", FALSE>>}

\* A field of the form, disabled while loading: onChange(k, v)
OnChange(k, v) ==
  /\ pc = "modal"
  /\ Rendered
  /\ ~loading
  /\ form' = [form EXCEPT ![k] = v]
  /\ UNCHANGED <<pdfVars, paper, textVars, postVars, concVars, aiVars, selected,
                 open, loading, error, outstanding>>

\* The submit button, disabled while loading: submit, up to its fetch
Submit ==
  /\ pc = "modal"
  /\ Rendered
  /\ ~loading
  /\ outstanding < MaxOutstanding
  /\ error' = <<>>
  /\ loading' = TRUE
  /\ outstanding' = outstanding + 1
  /\ UNCHANGED <<pdfVars, paper, textVars, postVars, concVars, aiVars, selected,
                 open, form>>

\* onClick of the close button, of the backdrop and of Cancel:
\* !loading ? onClose() : null
GuardedClose ==
  IF ~loading THEN onClose ELSE UNCHANGED <<selected, open, form, loading, error>>

CloseButton ==
  /\ pc = "modal"
  /\ Rendered
  /\ GuardedClose
  /\ UNCHANGED <<pdfVars, paper, textVars, postVars, concVars, aiVars, outstanding>>

Backdrop ==
  /\ pc = "modal"
  /\ Rendered
  /\ GuardedClose
  /\ UNCHANGED <<pdfVars, paper, textVars, postVars, concVars, aiVars, outstanding>>

Cancel ==
  /\ pc = "modal"
  /\ Rendered
  /\ GuardedClose
  /\ UNCHANGED <<pdfVars, paper, textVars, postVars, concVars, aiVars, outstanding>>

\* How a fetch settles without a download: a response that is not ok, with
\* the error of its body, or a rejection, with the message of what was thrown
Failures ==
  {[kind |-> "notOk", message |-> Str(<<"S", "e", "r", "v", "e", "r", " ", "e", "r", "r", "o", "r">>)],
   [kind |-> "notOk", message |-> Undefined],
   [kind |-> "rejected", message |-> Str(<<"F", "a", "i", "l", "e", "d", " ", "t", "o", " ", "f", "e", "t", "c", "h">>)],
   [kind |-> "rejected", message |-> Str(<<>>)]}

\* The message of what submit throws: new Error(j?.error || 'PDF generation
\* failed') for a response that is not ok
thrownMessage(f) ==
  IF f.kind = "notOk"
  THEN IF Truthy(f.message) THEN f.message ELSE Str(<<"P", "D", "F", " ", "g", "e", "n", "e", "r", "a", "t", "i", "o", "n", " ", "f", "a", "i", "l", "e", "d">>)
  ELSE f.message

\* e?.message || 'Something went wrong'
caughtMessage(m) == IF Truthy(m) THEN m.s ELSE <<"S", "o", "m", "e", "t", "h", "i", "n", "g", " ", "w", "e", "n", "t", " ", "w", "r", "o", "n", "g">>

\* A fetch of submit settles with a download: onClose(), and the effect
\* after it
RequestSucceeds ==
  /\ pc = "modal"
  /\ outstanding > 0
  /\ outstanding' = outstanding - 1
  /\ onClose
  /\ UNCHANGED <<pdfVars, paper, textVars, postVars, concVars, aiVars>>

\* A fetch of submit settles without a download: the catch of submit
RequestFails(f) ==
  /\ pc = "modal"
  /\ outstanding > 0
  /\ outstanding' = outstanding - 1
  /\ error' = caughtMessage(thrownMessage(f))
  /\ loading' = FALSE
  /\ UNCHANGED <<pdfVars, paper, textVars, postVars, concVars, aiVars, selected,
                 open, form>>

InitModal ==
  /\ LayoutStart(<<>>, "modal")
  /\ paper = NoPaper
  /\ TextIdle
  /\ PostIdle
  /\ ConcIdle
  /\ AiIdle
  /\ ModalIdle

NextModal ==
  \/ \E p \in 1..Len(paperSets) : OnDownload(p)
  \/ \E e \in FormEdits : OnChange(e[1], e[2])
  \/ Submit
  \/ CloseButton
  \/ Backdrop
  \/ Cancel
  \/ RequestSucceeds
  \/ \E f \in Failures : RequestFails(f)

SpecModal == InitModal /\ [][NextModal]_vars

(***************************************************************************)
(* Properties of buildPdfFromLines                                         *)
(***************************************************************************)
\* Whether byte (or character) string bs holds pat at offset p, counted from 0
MatchAt(bs, p, pat) ==
  /\ p >= 0
  /\ p + Len(pat) <= Len(bs)
  /\ \A j \in 1..Len(pat) : bs[p + j] = pat[j]

StartsWith(bs, pat) == MatchAt(bs, 0, pat)

EndsWith(bs, pat) == MatchAt(bs, Len(bs) - Len(pat), pat)

\* A text-show operation: ( ... ) Tj
IsTj(op) == StartsWith(op, <<"(">>) /\ EndsWith(op, <<")", " ", "T", "j">>) /\ Len(op) >= 5

\* The pages so far, the one being filled included
PagesSoFar == IF pc = "layout" THEN Append(pages, current) ELSE pages

\* The text-show operations of all pages, page by page
AllTj == Flatten([k \in 1..Len(PagesSoFar) |-> SelectSeq(PagesSoFar[k], IsTj)])

RECURSIVE SumHeights(_, _)
SumHeights(ls, n) == IF n = 0 THEN 0 ELSE SumHeights(ls, n - 1) + LineHeight(ls[n])

\* H: the cumulative line height of the input, hundredths of a point
TotalHeight == SumHeights(lines, Len(lines))

\* U: the usable page height, 729.89pt
UsableHeight == PAGE_H - M_TOP - M_BOTTOM

CeilDiv(a, b) == (a + b - 1) \div b

AllLinesFit == \A i \in 1..Len(lines) : LineHeight(lines[i]) <= UsableHeight

\* C1: the text-show operations, read page by page, are the Lines placed so
\* far in input order, one operation per Line: after the loop their number is
\* the input line count.
C1_EveryLineShownOnce ==
  /\ AllTj = [i \in 1..idx |-> <<"(">> \o pdfStringEscape(lines[i].text) \o <<")", " ", "T", "j">>]
  /\ pc # "layout" => Len(AllTj) = Len(lines)

C1_Witness ==
  /\ pc = "done"
  /\ Len(pages) >= 2
  /\ Len(lines) = MaxLines
  /\ \E i, j \in 1..Len(lines) : lines[i].text # lines[j].text

\* C2 as stated: the page count is ceil(H / U).
C2_PageCountIsCeil ==
  pc # "layout" => Len(pages) = CeilDiv(TotalHeight, UsableHeight)

\* C2 amended: when every line height is at most U, the page count is at least
\* ceil(H / U) and at least 1, and at most the number of Lines (or 1).
C2_PageCountAtLeastCeil ==
  (pc # "layout" /\ AllLinesFit) =>
    /\ Len(pages) >= 1
    /\ Len(pages) >= CeilDiv(TotalHeight, UsableHeight)
    /\ Len(pages) <= IF Len(lines) = 0 THEN 1 ELSE Len(lines)

\* Three Lines that each fit, on three pages although ceil(H / U) is 2
C2_Witness ==
  /\ pc = "done"
  /\ AllLinesFit
  /\ Len(pages) > CeilDiv(TotalHeight, UsableHeight)
  /\ CeilDiv(TotalHeight, UsableHeight) >= 2

\* The cursor is within the page: not below the bottom margin, not above the
\* top position, and the Line placed last was shown at least its height above
\* the bottom margin
CursorWithinPage ==
  /\ y >= M_BOTTOM
  /\ y <= PAGE_H - M_TOP
  /\ (pc = "layout" /\ idx > 0) =>
       /\ y + LineHeight(lines[idx]) >= M_BOTTOM + LineHeight(lines[idx])
       /\ y + LineHeight(lines[idx]) <= PAGE_H - M_TOP

\* Every finished page holds a text-show operation
NoBlankPage == \A k \in 1..Len(pages) : \E j \in 1..Len(pages[k]) : IsTj(pages[k][j])

\* A step of the loop that pushes a page is one whose Line does not fit in
\* the space left
BreakOnlyWhenFull ==
  (pc = "layout" /\ idx < Len(lines) /\ Len(pages') > Len(pages)) =>
    y - LineHeight(lines[idx + 1]) < M_BOTTOM

\* C22: when every line height is at most the usable height, the cursor stays
\* between the bottom margin and the top position, each Line is shown at
\* least its height above the bottom margin, a page is pushed during the loop
\* only when the next Line does not fit, and no page of a non-empty input is
\* without a text-show operation.
C22_CursorAndBreaks ==
  /\ [](AllLinesFit => CursorWithinPage)
  /\ []((AllLinesFit /\ lines # <<>>) => NoBlankPage)
  /\ [][AllLinesFit => BreakOnlyWhenFull]_vars

\* Three Lines that each fit, on two pages
C22_Witness ==
  /\ pc = "done"
  /\ AllLinesFit
  /\ Len(lines) = 3
  /\ Len(pages) = 2
  /\ y < PAGE_H - M_TOP - UsableHeight \div 2

\* C3: a cumulative line height above the usable height of one page gives
\* more than one page.
C3_OverflowGivesSecondPage ==
  (pc # "layout" /\ TotalHeight > UsableHeight) => Len(pages) > 1

C3_Witness ==
  /\ pc = "done"
  /\ AllLinesFit
  /\ TotalHeight > UsableHeight
  /\ Len(pages) = 2

\* The byte positions at which the line `<i> 0 obj` starts in the output
ObjPositions(i) ==
  LET pat == Encode(NatStr(i) \o <<" ", "0", " ", "o", "b", "j", "\n">>)
  IN {p \in 1..Len(out) : out[p] = "\n" /\ MatchAt(out, p, pat)}

\* The byte positions at which the line `xref` starts in the output
XrefPositions ==
  LET pat == Encode(<<"x", "r", "e", "f", "\n">>)
  IN {p \in 1..Len(out) : out[p] = "\n" /\ MatchAt(out, p, pat)}

\* The number of emitted objects: the `endobj` lines of the output
EmittedObjects ==
  LET pat == Encode(<<"e", "n", "d", "o", "b", "j", "\n">>)
  IN Cardinality({p \in 1..Len(out) : out[p] = "\n" /\ MatchAt(out, p, pat)})

\* The cross-reference table, trailer and end of file that a document of n
\* objects at positions pos[1..n], with its xref keyword at x, has to end with
ExpectedTail(n, pos, x) ==
  <<"x", "r", "e", "f", "\n", "0", " ">> \o NatStr(n + 1) \o <<"\n", "0", "0", "0", "0", "0", "0", "0", "0", "0", "0", " ", "6", "5", "5", "3", "5", " ", "f", " ", "\n">>
    \o Flatten([i \in 1..n |-> PadStart10(NatStr(pos[i])) \o <<" ", "0", "0", "0", "0", "0", " ", "n", " ", "\n">>])
    \o <<"t", "r", "a", "i", "l", "e", "r", "\n", "<", "<", " ", "/", "S", "i", "z", "e", " ">> \o NatStr(n + 1) \o <<" ", "/", "R", "o", "o", "t", " ", "1", " ", "0", " ", "R", " ", ">", ">", "\n", "s", "t", "a", "r", "t", "x", "r", "e", "f", "\n">>
    \o NatStr(x) \o <<"\n", "%", "%", "E", "O", "F", "\n">>

\* C4: the cross-reference table has N + 1 entries, the free entry first, entry
\* i holds the byte position of `i 0 obj`, /Size is N + 1 and startxref is the
\* byte position of `xref`.
C4_XrefOffsetsExact ==
  pc = "done" =>
    LET n == EmittedObjects
    IN /\ n = Len(finalBodies)
       /\ \A i \in 1..n : Cardinality(ObjPositions(i)) = 1
       /\ Cardinality(XrefPositions) = 1
       /\ LET pos == [i \in 1..n |-> CHOOSE p \in ObjPositions(i) : TRUE]
              x == CHOOSE p \in XrefPositions : TRUE
          IN /\ SubSeq(out, x + 1, Len(out)) = Encode(ExpectedTail(n, pos, x))
             /\ x = xrefStart
             /\ offsets = <<0>> \o pos

C4_Witness ==
  /\ pc = "done"
  /\ Len(pages) >= 2
  /\ Len(offsets) = 2 * Len(pages) + 4
  /\ \E i \in 1..Len(lines) : Len(Encode(lines[i].text)) > Len(lines[i].text)

\* The Page object of a page whose content stream is object c
ExpectedPageObj(c) ==
  <<"<", "<", "\n", "/", "T", "y", "p", "e", " ", "/", "P", "a", "g", "e", "\n", "/", "P", "a", "r", "e", "n", "t", " ", "2", " ", "0", " ", "R", "\n", "/", "M", "e", "d", "i", "a", "B", "o", "x", " ", "[", "0", " ", "0", " ", "5", "9", "5", ".", "2", "8", " ", "8", "4", "1", ".", "8", "9", "]", "\n", "/", "R", "e", "s", "o", "u", "r", "c", "e", "s", " ", "<", "<", " ", "/", "F", "o", "n", "t", " ", "<", "<", " ", "/", "F", "1", " ", "3", " ", "0", " ", "R", " ", ">", ">", " ", ">", ">", "\n", "/", "C", "o", "n", "t", "e", "n", "t", "s", " ">>
    \o NatStr(c) \o <<" ", "0", " ", "R", "\n", ">", ">">>

C7_StreamLengthInBytes ==
  pc = "done" =>
    \A k \in 1..Len(pages) :
      \E p \in ObjPositions(2 + 2 * k), n \in 0..Len(out) :
        LET head == Encode(NatStr(2 + 2 * k) \o <<" ", "0", " ", "o", "b", "j", "\n", "<", "<", " ", "/", "L", "e", "n", "g", "t", "h", " ">>
                             \o NatStr(n) \o <<" ", ">", ">", "\n", "s", "t", "r", "e", "a", "m", "\n">>)
        IN /\ MatchAt(out, p, head)
           /\ MatchAt(out, p + Len(head) + n, Encode(<<"\n", "e", "n", "d", "s", "t", "r", "e", "a", "m", "\n", "e", "n", "d", "o", "b", "j", "\n">>))
           /\ n = Len(Encode(Join(pages[k], <<"\n">>)))

C7_Witness ==
  /\ pc = "done"
  /\ \E k \in 1..Len(pages) :
       Len(Encode(Join(pages[k], <<"\n">>))) > Len(Join(pages[k], <<"\n">>))


(***************************************************************************)
(* Properties of buildPdfFromLines(buildPaperLines(paper))                 *)
(***************************************************************************)
\* C6: the bytes begin with %PDF-1.4 and end with the trailer dictionary,
\* whose /Root is object 1, then startxref and its value, then %%EOF and a
\* newline.
C6_HeaderAndEndOfFile ==
  pc = "done" =>
    /\ StartsWith(out, Encode(<<"%", "P", "D", "F", "-", "1", ".", "4">>))
    /\ \E x \in XrefPositions, m \in 1..(EmittedObjects + 1) :
         EndsWith(out, Encode(<<"\n", "t", "r", "a", "i", "l", "e", "r", "\n", "<", "<", " ", "/", "S", "i", "z", "e", " ">> \o NatStr(m)
                                \o <<" ", "/", "R", "o", "o", "t", " ", "1", " ", "0", " ", "R", " ", ">", ">", "\n", "s", "t", "a", "r", "t", "x", "r", "e", "f", "\n">> \o NatStr(x)
                                \o <<"\n", "%", "%", "E", "O", "F", "\n">>))

C6_Witness == pc = "done" /\ Truthy(paper.passage) /\ Len(pages) >= 2

(***************************************************************************)
(* Properties of show and pdfStringEscape                                  *)
(***************************************************************************)
\* The metacharacters of a PDF literal string
Meta == {"\\", "(", ")"}

\* From position i on, s is made of characters that are not metacharacters
\* and of metacharacters preceded by a backslash
RECURSIVE WellEscapedFrom(_, _)
WellEscapedFrom(s, i) ==
  \/ i > Len(s)
  \/ s[i] \notin Meta /\ WellEscapedFrom(s, i + 1)
  \/ s[i] = "\\" /\ i < Len(s) /\ s[i + 1] \in Meta /\ WellEscapedFrom(s, i + 2)

\* s from position i on, with every backslash escape undone
RECURSIVE UnescapeFrom(_, _)
UnescapeFrom(s, i) ==
  IF i > Len(s) THEN <<>>
  ELSE IF s[i] = "\\" /\ i < Len(s) THEN <<s[i + 1]>> \o UnescapeFrom(s, i + 2)
  ELSE <<s[i]>> \o UnescapeFrom(s, i + 1)

\* C8: the operand of the text-show operation is the text with a backslash
\* before every backslash and parenthesis: nothing in it is unescaped, and
\* undoing the escapes gives the text back.
C8_OperandEscaped ==
  pc = "shown" =>
    LET operand == SubSeq(shown, 2, Len(shown) - 4)
    IN /\ IsTj(shown)
       /\ operand = Flatten([i \in 1..Len(text) |->
                       IF text[i] \in Meta THEN <<"\\", text[i]>> ELSE <<text[i]>>])
       /\ WellEscapedFrom(operand, 1)
       /\ UnescapeFrom(operand, 1) = text

C8_Witness ==
  /\ pc = "shown"
  /\ \E i, j \in 1..Len(text) : i < j /\ text[i] = "(" /\ text[j] = "\\"

\* The words of the lines ls[a..b], in order
LineWords(ls, a, b) == Flatten([j \in 1..(b - a + 1) |-> Words(ls[a + j - 1])])

\* The lines ls[start..] are the paragraphs paras[k..], each packed greedily:
\* an empty paragraph is one empty line; the lines of any other hold its words
\* joined by one space, a line of two or more words is at most width long, a
\* longer line is one word, and the first word of the next line of the
\* paragraph would not have fitted.
RECURSIVE PackedFrom(_, _, _, _, _)
PackedFrom(ls, paras, k, start, width) ==
  IF k > Len(paras) THEN start = Len(ls) + 1
  ELSE IF Words(paras[k]) = <<>>
  THEN /\ start <= Len(ls)
       /\ ls[start] = <<>>
       /\ PackedFrom(ls, paras, k + 1, start + 1, width)
  ELSE \E e \in start..Len(ls) :
         /\ LineWords(ls, start, e) = Words(paras[k])
         /\ \A j \in start..e :
              /\ Words(ls[j]) # <<>>
              /\ ls[j] = Join(Words(ls[j]), <<" ">>)
              /\ Len(Words(ls[j])) >= 2 => Len(ls[j]) <= width
              /\ Len(ls[j]) > width => Len(Words(ls[j])) = 1
         /\ \A j \in start..(e - 1) :
              Len(ls[j]) + 1 + Len(Words(ls[j + 1])[1]) > width
         /\ PackedFrom(ls, paras, k + 1, e + 1, width)

(***************************************************************************)
(* Properties of buildPaperLines                                           *)
(***************************************************************************)
\* Where the question blocks start: after the Questions heading, the first
\* Line of size 13, and the blank Line that follows it
QuestionsStart ==
  (CHOOSE j \in 1..Len(lines) :
     lines[j].size = <<13>> /\ \A h \in 1..(j - 1) : lines[h].size # <<13>>) + 2

\* Where the Answer Key heading is: the last Line of size 13
AnswerKeyAt ==
  CHOOSE j \in 1..Len(lines) :
    lines[j].size = <<13>> /\ \A h \in (j + 1)..Len(lines) : lines[h].size # <<13>>

\* The first Line of each question: the Lines of a question text are the
\* Lines of size 11 of its block, which option Lines (size 10) or the blank
\* Line (no size) end
QuestionStarts ==
  SelectSeq([j \in 1..Len(lines) |-> j],
            LAMBDA j : /\ j >= QuestionsStart
                       /\ j < AnswerKeyAt
                       /\ lines[j].size = <<11>>
                       /\ (j = QuestionsStart \/ lines[j - 1].size # <<11>>))

\* The texts of the Lines of the i-th question text
QuestionTextLines(i) ==
  LET first == QuestionStarts[i]
      last == CHOOSE e \in first..Len(lines) :
                /\ \A j \in first..e : lines[j].size = <<11>>
                /\ lines[e + 1].size # <<11>>
  IN [j \in 1..(last - first + 1) |-> lines[first + j - 1].text]

\* The text wrapped for the i-th question: ordinal, period, space, text
PrefixedQuestion(i) ==
  NatStr(i) \o <<".", " ">> \o safeText(paper.questions[i].questionText, <<>>)

\* C9 as stated, of the Lines that buildPaperLines returned: a question whose
\* prefixed text is longer than 92 characters takes more than one Line, and
\* its Lines joined by spaces hold its words.
C9_LongQuestionWraps ==
  (pc = "layout" /\ idx = 0) =>
    /\ Len(QuestionStarts) = Len(paper.questions)
    /\ \A i \in 1..Len(paper.questions) :
         /\ Len(PrefixedQuestion(i)) > questionWidth => Len(QuestionTextLines(i)) > 1
         /\ Words(Join(QuestionTextLines(i), <<" ">>)) = Words(PrefixedQuestion(i))

\* C9 amended, of the Lines that buildPaperLines returned: a question whose
\* prefixed text, with every white-space run taken as one space, is longer
\* than 92 characters takes more than one Line; and the Lines of every
\* question joined by spaces hold exactly its words.
C9_LongWordsWrap ==
  (pc = "layout" /\ idx = 0) =>
    /\ Len(QuestionStarts) = Len(paper.questions)
    /\ \A i \in 1..Len(paper.questions) :
         /\ Len(Join(Words(PrefixedQuestion(i)), <<" ">>)) > questionWidth
              => Len(QuestionTextLines(i)) > 1
         /\ Words(Join(QuestionTextLines(i), <<" ">>)) = Words(PrefixedQuestion(i))

C9_Witness ==
  /\ pc = "layout"
  /\ idx = 0
  /\ \E i \in 1..Len(paper.questions) :
       /\ Len(Join(Words(PrefixedQuestion(i)), <<" ">>)) > questionWidth
       /\ Len(Words(PrefixedQuestion(i))) > 2
       /\ Len(QuestionTextLines(i)) = 2

\* The j-th Line returned, and a Line that is none of them past the end
LineAt(j) == IF j \in 1..Len(lines) THEN lines[j] ELSE Ln(<<>>, <<0>>, FALSE)

\* The Lines from start up to stop are the question blocks i, i + 1, ... of
\* the paper: each starts with a Line of size 11 that begins with its ordinal
\* and a period, and ends with its first blank Line
RECURSIVE QuestionBlocksFrom(_, _, _)
QuestionBlocksFrom(start, i, stop) ==
  IF i > Len(paper.questions) THEN start = stop
  ELSE /\ LineAt(start).size = <<11>>
       /\ ~LineAt(start).bold
       /\ StartsWith(LineAt(start).text, NatStr(i) \o <<".">>)
       /\ \E e \in (start + 1)..(stop - 1) :
            /\ LineAt(e) = blankLine
            /\ \A j \in start..(e - 1) : LineAt(j) # blankLine
            /\ QuestionBlocksFrom(e + 1, i + 1, stop)

\* The Lines from start up to stop are the answer entries i, i + 1, ... of
\* the paper: each starts with a bold Line of size 11 that begins with its
\* ordinal and a period, and ends with its first blank Line
RECURSIVE AnswerEntriesFrom(_, _, _)
AnswerEntriesFrom(start, i, stop) ==
  IF i > Len(paper.questions) THEN start = stop
  ELSE /\ LineAt(start).size = <<11>>
       /\ LineAt(start).bold
       /\ StartsWith(LineAt(start).text, NatStr(i) \o <<".", " ">>)
       /\ \E e \in (start + 1)..(stop - 1) :
            /\ LineAt(e) = blankLine
            /\ \A j \in (start + 1)..(e - 1) :
                 LineAt(j).size = <<10>> /\ ~LineAt(j).bold
            /\ AnswerEntriesFrom(e + 1, i + 1, stop)

\* C12: the Lines buildPaperLines returned are, in this order: the six Lines
\* of the header, with the number of questions in the fifth; the Instructions
\* heading and its body; the separator; the Reading Passage section or
\* nothing; the Questions heading; one block for each question, in order; the
\* Answer Key heading; one entry for each question, in order.
C12_SectionOrder ==
  (pc = "layout" /\ idx = 0) =>
    /\ LineAt(1) = Ln(<<"1", "1", " ", "P", "l", "u", "s", " ", "E", "x", "a", "m", " ", "P", "a", "p", "e", "r", "s">>, <<16>>, TRUE)
    /\ LineAt(2).size = <<18>> /\ LineAt(2).bold
    /\ LineAt(3).size = <<12>> /\ EndsWith(LineAt(3).text, <<" ", "S", "t", "y", "l", "e">>)
    /\ LineAt(4).size = <<11>> /\ StartsWith(LineAt(4).text, <<"T", "i", "m", "e", " ", "A", "l", "l", "o", "w", "e", "d", ":", " ">>)
    /\ LineAt(5) = Ln(<<"T", "o", "t", "a", "l", " ", "Q", "u", "e", "s", "t", "i", "o", "n", "s", ":", " ">> \o NatStr(Len(paper.questions)),
                      <<11>>, FALSE)
    /\ LineAt(6) = blankLine
    /\ LineAt(7) = Ln(<<"I", "n", "s", "t", "r", "u", "c", "t", "i", "o", "n", "s">>, <<12>>, TRUE)
    /\ \E sep \in 9..Len(lines) :
         /\ \A j \in 8..(sep - 1) : LineAt(j).size = <<10>> /\ ~LineAt(j).bold
         /\ LineAt(sep) = blankLine
         /\ LineAt(sep + 1) = Ln(<<"U+2014">>, <<10>>, FALSE)
         /\ LineAt(sep + 2) = blankLine
         /\ \E qh \in (sep + 3)..Len(lines) :
              /\ \/ qh = sep + 3
                 \/ /\ qh >= sep + 6
                    /\ LineAt(sep + 3) = Ln(<<"R", "e", "a", "d", "i", "n", "g", " ", "P", "a", "s", "s", "a", "g", "e">>, <<12>>, TRUE)
                    /\ \A j \in (sep + 4)..(qh - 2) :
                         LineAt(j).size = <<10>> /\ ~LineAt(j).bold
                    /\ LineAt(qh - 1) = blankLine
              /\ LineAt(qh) = Ln(<<"Q", "u", "e", "s", "t", "i", "o", "n", "s">>, <<13>>, TRUE)
              /\ LineAt(qh + 1) = blankLine
              /\ \E ak \in (qh + 2)..Len(lines) :
                   /\ LineAt(ak) = Ln(<<"A", "n", "s", "w", "e", "r", " ", "K", "e", "y", " ", "(", "P", "a", "r", "e", "n", "t", "s", " ", "&", " ", "T", "u", "t", "o", "r", "s", ")">>, <<13>>, TRUE)
                   /\ LineAt(ak + 1) = blankLine
                   /\ QuestionBlocksFrom(qh + 2, 1, ak)
                   /\ AnswerEntriesFrom(ak + 2, 1, Len(lines) + 1)

\* The Lines of a paper of two questions with options and explanations
C12_Witness ==
  /\ pc = "layout"
  /\ idx = 0
  /\ Len(paper.questions) = 2
  /\ \A i \in 1..2 : /\ OptionsOf(paper.questions[i]) # <<>>
                      /\ paper.questions[i].explanation.t = "string"
  /\ paper.questions[1] # paper.questions[2]
  /\ Len(lines) > 20

\* The texts of the Lines a..b
LineTextsOf(a, b) == [j \in 1..(b - a + 1) |-> LineAt(a + j - 1).text]

PassageHeading == Ln(<<"R", "e", "a", "d", "i", "n", "g", " ", "P", "a", "s", "s", "a", "g", "e">>, <<12>>, TRUE)

\* C13: the Reading Passage heading is among the Lines exactly when the
\* passage is a non-empty string; it then follows the separator and is
\* followed by the passage wrapped at 92, a blank Line and the Questions
\* heading; otherwise the Questions heading follows the separator.
C13_PassageSection ==
  (pc = "layout" /\ idx = 0) =>
    /\ (\E j \in 1..Len(lines) : lines[j] = PassageHeading)
         <=> (paper.passage.t = "string" /\ paper.passage.s # <<>>)
    /\ \E sep \in 9..Len(lines) :
         /\ \A j \in 8..(sep - 1) : LineAt(j) # blankLine
         /\ LineAt(sep) = blankLine
         /\ LineAt(sep + 1) = Ln(<<"U+2014">>, <<10>>, FALSE)
         /\ LineAt(sep + 2) = blankLine
         /\ IF paper.passage.t = "string" /\ paper.passage.s # <<>>
            THEN /\ LineAt(sep + 3) = PassageHeading
                 /\ \E qh \in (sep + 6)..Len(lines) :
                      /\ LineAt(qh) = Ln(<<"Q", "u", "e", "s", "t", "i", "o", "n", "s">>, <<13>>, TRUE)
                      /\ LineAt(qh - 1) = blankLine
                      /\ \A j \in (sep + 4)..(qh - 2) : LineAt(j).size = <<10>>
                      /\ PackedFrom(LineTextsOf(sep + 4, qh - 2),
                                    SplitEach(SelectSeq(paper.passage.s,
                                                        LAMBDA c : c # "\r"), {"\n"}),
                                    1, 1, questionWidth)
            ELSE LineAt(sep + 3) = Ln(<<"Q", "u", "e", "s", "t", "i", "o", "n", "s">>, <<13>>, TRUE)

\* A paper with a passage, whose heading is among the Lines
C13_Witness ==
  /\ pc = "layout"
  /\ idx = 0
  /\ paper.passage.t = "string"
  /\ paper.passage.s # <<>>
  /\ \E j \in 1..Len(lines) : lines[j] = PassageHeading /\ LineAt(j + 1).text # <<>>

\* The text of a value of the body as the Lines show it: the string without
\* its carriage returns, nothing for any other value
TextOf(v) == IF v.t = "string" THEN SelectSeq(v.s, LAMBDA c : c # "\r") ELSE <<>>

\* The letter of code 65 + k, for k below 26
Letter(k) == IF k \in 0..25 THEN UpperCase[k + 1] ELSE "?"

\* From Line start on come the options j, j + 1, ... of question i, each on
\* Lines of size 10 that hold its letter, a period and its words and begin
\* with the letter and the period, then one blank Line, then the blocks of the
\* questions after i and the Answer Key heading
RECURSIVE OptionsThenBlocksFrom(_, _, _), BlocksThenKeyFrom(_, _)
OptionsThenBlocksFrom(start, i, j) ==
  LET opts == OptionsOf(paper.questions[i])
  IN IF j > Len(opts)
     THEN LineAt(start) = blankLine /\ BlocksThenKeyFrom(start + 1, i + 1)
     ELSE \E e \in start..Len(lines) :
            /\ \A k \in start..e : LineAt(k).size = <<10>> /\ ~LineAt(k).bold
            /\ StartsWith(LineAt(start).text, <<Letter(j - 1), ".">>)
            /\ LineWords(LineTextsOf(start, e), 1, e - start + 1)
                 = <<<<Letter(j - 1), ".">>>> \o Words(TextOf(opts[j]))
            /\ OptionsThenBlocksFrom(e + 1, i, j + 1)

\* From Line start on come the blocks of the questions i, i + 1, ..., each
\* beginning with Lines of size 11 of which the first begins with the ordinal
\* and a period, then the Answer Key heading
BlocksThenKeyFrom(start, i) ==
  IF i > Len(paper.questions)
  THEN LineAt(start) = Ln(<<"A", "n", "s", "w", "e", "r", " ", "K", "e", "y", " ", "(", "P", "a", "r", "e", "n", "t", "s", " ", "&", " ", "T", "u", "t", "o", "r", "s", ")">>, <<13>>, TRUE)
  ELSE /\ StartsWith(LineAt(start).text, NatStr(i) \o <<".">>)
       /\ \E o \in (start + 1)..Len(lines) :
            /\ \A k \in start..(o - 1) : LineAt(k).size = <<11>> /\ ~LineAt(k).bold
            /\ LineWords(LineTextsOf(start, o - 1), 1, o - start)
                 = <<NatStr(i) \o <<".">>>> \o Words(TextOf(paper.questions[i].questionText))
            /\ OptionsThenBlocksFrom(o, i, 1)

\* C14: the first Line of the i-th question begins with i and a period; its
\* options follow in order, the first Line of the j-th (from 0) beginning with
\* the letter of code 65 + j and a period; one blank Line ends the block.
C14_QuestionBlocks ==
  (pc = "layout" /\ idx = 0) =>
    \E qh \in 1..Len(lines) :
      /\ LineAt(qh) = Ln(<<"Q", "u", "e", "s", "t", "i", "o", "n", "s">>, <<13>>, TRUE)
      /\ LineAt(qh + 1) = blankLine
      /\ BlocksThenKeyFrom(qh + 2, 1)

\* A second question whose first option takes two Lines and whose second
\* option begins with B and a period
C14_Witness ==
  /\ pc = "layout"
  /\ idx = 0
  /\ Len(paper.questions) = 2
  /\ \E j \in 1..(Len(lines) - 3) :
       /\ StartsWith(lines[j].text, <<"2", ".">>)
       /\ lines[j].size = <<11>>
       /\ StartsWith(lines[j + 1].text, <<"A", ".">>)
       /\ lines[j + 2].size = <<10>>
       /\ StartsWith(lines[j + 3].text, <<"B", ".">>)

\* The index the answer key shows for question q: correctAnswerIndex when it
\* is a number above 0, else 0
ShownIndex(q) ==
  IF q.correctAnswerIndex.t = "number" /\ q.correctAnswerIndex.n > 0
  THEN q.correctAnswerIndex.n
  ELSE 0

\* From Line start on come the answer entries i, i + 1, ... and nothing else:
\* each is the bold Line of the ordinal, a period, a space and the letter,
\* then, for a non-empty explanation only, Lines of size 10 that hold
\* `Explanation:` and the words of the explanation, then a blank Line
RECURSIVE AnswersFrom(_, _)
AnswersFrom(start, i) ==
  IF i > Len(paper.questions) THEN start = Len(lines) + 1
  ELSE LET q == paper.questions[i]
           expl == TextOf(q.explanation)
       IN /\ LineAt(start)
               = Ln(NatStr(i) \o <<".", " ">> \o <<Letter(ShownIndex(q))>>, <<11>>, TRUE)
          /\ IF expl = <<>>
             THEN LineAt(start + 1) = blankLine /\ AnswersFrom(start + 2, i + 1)
             ELSE \E e \in (start + 1)..Len(lines) :
                    /\ \A k \in (start + 1)..e :
                         LineAt(k).size = <<10>> /\ ~LineAt(k).bold
                    /\ StartsWith(LineAt(start + 1).text, <<"E", "x", "p", "l", "a", "n", "a", "t", "i", "o", "n", ":">>)
                    /\ LineWords(LineTextsOf(start + 1, e), 1, e - start)
                         = <<<<"E", "x", "p", "l", "a", "n", "a", "t", "i", "o", "n", ":">>>> \o Words(expl)
                    /\ LineAt(e + 1) = blankLine
                    /\ AnswersFrom(e + 2, i + 1)

\* C15: the answer-key Line of a question is its ordinal, a period, a space
\* and the letter of code 65 + max(0, correctAnswerIndex), index 0 when the
\* field is not a number, whatever the number of options; the explanation
\* follows, wrapped behind `Explanation: `, exactly when it is not empty.
C15_AnswerKeyEntries ==
  (pc = "layout" /\ idx = 0) =>
    \E ak \in 1..Len(lines) :
      /\ LineAt(ak) = Ln(<<"A", "n", "s", "w", "e", "r", " ", "K", "e", "y", " ", "(", "P", "a", "r", "e", "n", "t", "s", " ", "&", " ", "T", "u", "t", "o", "r", "s", ")">>, <<13>>, TRUE)
      /\ LineAt(ak + 1) = blankLine
      /\ AnswersFrom(ak + 2, 1)

\* Index 9 on a question of four options is shown as J, with no explanation
\* after it, and index 1 as B, with its explanation
C15_Witness ==
  /\ pc = "layout"
  /\ idx = 0
  /\ Len(paper.questions) = 2
  /\ paper.questions[1].correctAnswerIndex = Num(9)
  /\ Len(OptionsOf(paper.questions[1])) = 4
  /\ paper.questions[1].explanation = Str(<<>>)
  /\ paper.questions[2].correctAnswerIndex = Num(1)
  /\ \E j \in 1..(Len(lines) - 3) :
       /\ lines[j] = Ln(<<"1", ".", " ", "J">>, <<11>>, TRUE)
       /\ lines[j + 1] = blankLine
       /\ lines[j + 2] = Ln(<<"2", ".", " ", "B">>, <<11>>, TRUE)
       /\ StartsWith(lines[j + 3].text, <<"E", "x", "p", "l", "a", "n", "a", "t", "i", "o", "n", ":", " ">>)

\* The answer-key Lines, one for each question: the bold Lines of size 11
AnswerKeyLines == SelectSeq(lines, LAMBDA ln : ln.size = <<11>> /\ ln.bold)

\* C16: the letter the answer key shows for a question of k >= 1 options is
\* one of the first k letters, those that label the options of the question.
C16_AnswerLetterWithinOptions ==
  (pc = "layout" /\ idx = 0) =>
    /\ Len(AnswerKeyLines) = Len(paper.questions)
    /\ \A i \in 1..Len(paper.questions) :
         LET k == Len(OptionsOf(paper.questions[i]))
         IN k >= 1 =>
              \E j \in 0..(k - 1) :
                AnswerKeyLines[i].text = NatStr(i) \o <<".", " ">> \o <<Letter(j)>>

(***************************************************************************)
(* Properties of POST                                                      *)
(***************************************************************************)
\* The body passes the required-shape check: it is an object whose title and
\* subject are strings and whose questions are a non-empty array
PassesShapeCheck ==
  /\ req.kind = "object"
  /\ req.title.t = "string"
  /\ req.subject.t = "string"
  /\ req.questions.t = "array"
  /\ req.questions.a # <<>>

\* Every text field of the paper given to buildPaperLines is a string, a
\* field of the body that is no string having become the empty string or the
\* fallback
AllTextNormalized ==
  /\ \A f \in {"title", "subject", "board", "timeAllowed", "instructions", "passage"} :
       /\ paper[f].t = "string"
       /\ req[f].t # "string" =>
            paper[f].s \in {<<>>, <<"S", "t", "a", "n", "d", "a", "r", "d">>, <<"N", "o", "t", " ", "s", "p", "e", "c", "i", "f", "i", "e", "d">>}
  /\ Len(paper.questions) = Len(req.questions.a)
  /\ \A i \in 1..Len(paper.questions) :
       LET q == paper.questions[i]
           el == req.questions.a[i]
       IN /\ q.questionText.t = "string"
          /\ el.questionText.t # "string" => q.questionText.s = <<>>
          /\ q.explanation.t = "string"
          /\ el.explanation.t # "string" => q.explanation.s = <<>>
          /\ q.options.t = "array"
          /\ el.options.t # "array" => q.options.a = <<>>
          /\ \A j \in 1..Len(q.options.a) :
               /\ q.options.a[j].t = "string"
               /\ el.options.a[j].t # "string" => q.options.a[j].s = <<>>

\* C17: for a body that passes the required-shape check, whatever its other
\* fields and the elements of questions and options are, POST does not throw
\* while it normalises the body and builds the Lines, and every text field
\* that is no string is replaced by the empty string or the fallback.
C17_LayoutNeverThrows ==
  (pc # "post" /\ PassesShapeCheck) =>
    /\ pc # "threw"
    /\ response.error # "TypeError"
    /\ AllTextNormalized

\* The body is one POST must reject: not JSON, or null, or without a string
\* title, a string subject or a non-empty array of questions
Rejectable ==
  \/ req.kind = "invalid"
  \/ req.kind = "null"
  \/ req.title.t # "string"
  \/ req.subject.t # "string"
  \/ req.questions.t # "array"
  \/ req.questions.a = <<>>

\* C18: a rejectable body is answered with status 400 and a JSON error body,
\* and no Lines and no bytes are built for it; status 200 with a PDF is
\* answered to bodies that are not rejectable only.
C18_BadBodiesRejected ==
  /\ (pc # "post" /\ Rejectable) =>
       /\ pc = "responded"
       /\ response.status = 400
       /\ response.contentType = "application/json"
       /\ response.error # ""
       /\ response.bytes = <<>>
       /\ lines = <<>>
       /\ pages = <<>>
       /\ out = <<>>
  /\ response.status = 200 =>
       /\ ~Rejectable
       /\ response.contentType = "application/pdf"
       /\ response.bytes = out
       /\ out # <<>>

\* A paper with a title and a subject and zero questions, rejected
C18_Witness ==
  /\ pc = "responded"
  /\ req.kind = "object"
  /\ req.title.t = "string"
  /\ req.subject.t = "string"
  /\ req.questions = Arr(<<>>)
  /\ response.status = 400

(***************************************************************************)
(* Properties of safeFilename                                              *)
(***************************************************************************)
\* The maximal runs of characters a-z and 0-9 of the lower-cased title
AlnumRuns(title) ==
  LET lower == toLowerCase(title)
      others == {lower[i] : i \in {k \in 1..Len(lower) : ~IsAlnum(lower[k])}}
  IN SelectSeq(SplitEach(lower, others), LAMBDA r : r # <<>>)

\* C19: the stem is not empty, at most 80 characters long, made of a-z, 0-9
\* and hyphens, without two hyphens in a row; it is the first 80 characters
\* of the runs of a-z and 0-9 of the lower-cased title with one hyphen for
\* each run of other characters between them, or `exam-paper` when there is
\* no such run; `Year 5 Maths — Mock #1!` gives `year-5-maths-mock-1`.
C19_FilenameStem ==
  pc = "named" =>
    LET joined == Join(AlnumRuns(text), <<"-">>)
    IN /\ stem # <<>>
       /\ Len(stem) <= 80
       /\ \A i \in 1..Len(stem) : IsAlnum(stem[i]) \/ stem[i] = "-"
       /\ \A i \in 1..(Len(stem) - 1) : ~(stem[i] = "-" /\ stem[i + 1] = "-")
       /\ joined = <<>> => stem = <<"e", "x", "a", "m", "-", "p", "a", "p", "e", "r">>
       /\ joined # <<>> => stem = SubSeq(joined, 1, IF Len(joined) < 80 THEN Len(joined) ELSE 80)
       /\ text = <<"Y", "e", "a", "r", " ", "5", " ", "M", "a", "t", "h", "s", " ", "U+2014", " ", "M", "o", "c", "k", " ", "#", "1", "!">> => stem = <<"y", "e", "a", "r", "-", "5", "-", "m", "a", "t", "h", "s", "-", "m", "o", "c", "k", "-", "1">>

\* The title of the example, named
C19_Witness ==
  /\ pc = "named"
  /\ text = <<"Y", "e", "a", "r", " ", "5", " ", "M", "a", "t", "h", "s", " ", "U+2014", " ", "M", "o", "c", "k", " ", "#", "1", "!">>
  /\ stem = <<"y", "e", "a", "r", "-", "5", "-", "m", "a", "t", "h", "s", "-", "m", "o", "c", "k", "-", "1">>

\* C20: the stem, truncated to 80 characters, neither begins nor ends with a
\* hyphen.
C20_NoHyphenAtEnds ==
  pc = "named" => (stem # <<>> /\ stem[1] # "-" /\ stem[Len(stem)] # "-")

(***************************************************************************)
(* Properties of concurrent POSTs                                          *)
(***************************************************************************)
\* pages, current and y after the first n iterations of the for loop of
\* buildPdfFromLines on ls, run alone
RECURSIVE LayoutAfter(_, _)
LayoutAfter(ls, n) ==
  IF n = 0 THEN NewLayout
  ELSE LET before == LayoutAfter(ls, n - 1)
       IN PlaceOne(before.pages, before.current, before.y, ls[n])

\* The bytes buildPdfFromLines returns for ls, run alone
BytesAlone(ls) ==
  LET last == LayoutAfter(ls, Len(ls))
      bodies == FinalBodies(Append(last.pages, endText(last.current)))
      st == WriteObjects(bodies, 1,
              [offsets |-> <<0>>, bytes |-> Encode(pdfHeader),
               cursor |-> ChunkLength(pdfHeader)])
  IN st.bytes \o Encode(xrefTable(bodies, st.offsets))
       \o Encode(trailer(bodies, st.cursor))

\* C21: however the steps of the requests interleave, the pages, the current
\* page and the cursor of a request are those of its own Lines placed so far,
\* and the bytes it returns are those its body gives when run alone.
C21_CallsIndependent ==
  pc = "calls" =>
    \A r \in Requests :
      LET c == calls[r]
      IN /\ (c.pc = "layout" /\ c.idx > 0) => layout[r] = LayoutAfter(c.lines, c.idx)
         /\ (c.pc = "responded" /\ c.response.status = 200) =>
              /\ c.lines = buildPaperLines(NormalizedPaper(c.req))
              /\ c.response.bytes = BytesAlone(c.lines)

\* Two requests for different papers are both in the middle of their loops,
\* the second of them on its second page
C21_Witness ==
  /\ pc = "calls"
  /\ \A r \in Requests :
       /\ calls[r].pc = "layout"
       /\ calls[r].idx > 0
       /\ calls[r].idx < Len(calls[r].lines)
  /\ calls[1].req # calls[2].req
  /\ layout[2].pages # <<>>
  /\ layout[1].pages = <<>>

(***************************************************************************)
(* Properties of the AI route                                              *)
(***************************************************************************)
\* The questions of the paper the model returned
ParsedQuestions == IF parsed.questions.t = "array" THEN parsed.questions.a ELSE <<>>

\* v is an integer number
IsInteger(v) == v.t = "number" /\ v.s = <<>> /\ v.a = <<>>

\* The i-th question returned is the i-th of the paper with four string
\* options, the first four of its own and empty ones after them, and an
\* integer index from 0 to 3, which shows as one of A, B, C, D
NormalizedQuestion(i) ==
  LET q == generated.questions[i]
      o == ParsedQuestions[i]
      given == IF o.options.t = "array" THEN o.options.a ELSE <<>>
  IN /\ q.questionText = Str(TextOf(o.questionText))
     /\ q.explanation = Str(TextOf(o.explanation))
     /\ q.options.t = "array"
     /\ Len(q.options.a) = 4
     /\ \A j \in 1..4 :
          q.options.a[j] = Str(IF j <= Len(given) THEN TextOf(given[j]) ELSE <<>>)
     /\ IsInteger(q.correctAnswerIndex)
     /\ q.correctAnswerIndex.n \in 0..3
     /\ IsInteger(o.correctAnswerIndex) =>
          q.correctAnswerIndex.n = (IF o.correctAnswerIndex.n < 0 THEN 0
                                    ELSE IF o.correctAnswerIndex.n > 3 THEN 3
                                    ELSE o.correctAnswerIndex.n)
     /\ (o.correctAnswerIndex.t # "number" \/ o.correctAnswerIndex.s # <<>>) =>
          q.correctAnswerIndex.n = 0
     /\ answerLetter(q) \in {"A", "B", "C", "D"}

\* C23: the question count asked for is within 10..30, 20 when the payload
\* gives no finite number; the paper normalizePaper returns has the first
\* qCount questions of the paper given, in order, and no more, each with four
\* string options and an integer index from 0 to 3 that shows as A, B, C or D.
C23_NormalizedPaper ==
  /\ (pc \notin {"ai", "calls"} /\ qCount # 0) =>
       /\ qCount \in 10..30
       /\ (payload.questionCount.t # "number" \/ payload.questionCount.s # <<>>)
            => qCount = 20
  /\ generated # NoPaper =>
       /\ Len(generated.questions) <= qCount
       /\ Len(generated.questions)
            = (IF Len(ParsedQuestions) < qCount THEN Len(ParsedQuestions) ELSE qCount)
       /\ \A i \in 1..Len(generated.questions) : NormalizedQuestion(i)

\* A paper of 11 questions cut to the 10 asked for; its second question had
\* six options and index 9 and has four options and index 3
C23_Witness ==
  /\ generated # NoPaper
  /\ Len(ParsedQuestions) = 11
  /\ payload.questionCount = Num(9)
  /\ qCount = 10
  /\ Len(generated.questions) = 10
  /\ Len(ParsedQuestions[2].options.a) = 6
  /\ ParsedQuestions[2].correctAnswerIndex = Num(9)
  /\ generated.questions[2].correctAnswerIndex = Num(3)
  /\ Len(generated.questions[2].options.a) = 4

\* C24: a browser is launched only for a request that passed validation and
\* got its paper, so never with a 400 or a 500 answer; and when the handler
\* has finished, by a Response or by an exception, no browser is open: every
\* one launched was closed.
C24_BrowserLifecycle ==
  /\ browser # "none" =>
       /\ payload.kind = "object"
       /\ payload.subject.t = "string"
       /\ generated # NoPaper
  /\ response.status \in {400, 500} => browser = "none"
  /\ pc \in {"responded", "threw"} => browser # "open"
  /\ (pc = "responded" /\ response.status = 200) => browser = "closed"
  /\ (pc = "threw" /\ pending = "throw") => browser = "closed"

\* The handler has thrown what newPage, setContent or pdf threw, and the
\* browser it launched is closed
C24_Witness ==
  /\ pc = "threw"
  /\ pending = "throw"
  /\ browser = "closed"

(***************************************************************************)
(* Properties of ExamPaperModal                                            *)
(***************************************************************************)
\* While a fetch of submit has not settled the modal is open and loading,
\* and no second fetch is outstanding
LockedWhileOutstanding ==
  /\ outstanding <= 1
  /\ outstanding > 0 => (open /\ selected # NoSelection /\ loading)

\* While loading, a step that settles no fetch changes nothing of the modal
ControlsIdleWhileLoading ==
  (loading /\ outstanding' = outstanding) => UNCHANGED modalVars

\* A fetch that settles either closes the modal and clears the selection, or
\* leaves the modal open, not loading, with an error message
SettledEitherWay ==
  outstanding' < outstanding =>
    \/ ~open' /\ selected' = NoSelection
    \/ open' /\ selected' = selected /\ ~loading' /\ error' # <<>>

\* The modal opens not loading, without an error, with the initial form of
\* the paper set selected
OpenedFresh ==
  (~open /\ open') =>
    /\ ~loading'
    /\ error' = <<>>
    /\ form' = initial(selected')

\* C25: from the start of a submit until its fetch settles the close button,
\* the backdrop, Cancel and the submit button change nothing, the modal stays
\* open and no second fetch is outstanding; a fetch that succeeds closes the
\* modal and clears the selection, one that fails leaves the modal open, not
\* loading, with a non-empty error; and whenever the modal opens it is not
\* loading, the error is empty and the form is the initial one of the paper
\* set selected.
C25_ModalLockedUntilSettled ==
  /\ []LockedWhileOutstanding
  /\ [][ControlsIdleWhileLoading /\ SettledEitherWay /\ OpenedFresh]_vars

(***************************************************************************)
(* Properties of wrapText                                                  *)
(***************************************************************************)
\* C10: wrapText packs the words of each paragraph greedily.
C10_GreedyPacking ==
  pc \in {"wrapped", "rewrapped"} =>
    PackedFrom(wrapped, SplitEach(SelectSeq(text, LAMBDA c : c # "\r"), {"\n"}),
               1, 1, maxChars)

\* A paragraph of three words wrapped into a full line of two words and a
\* second line
C10_Witness ==
  /\ pc = "wrapped"
  /\ Len(wrapped) = 2
  /\ Len(Words(wrapped[1])) = 2
  /\ Len(wrapped[1]) = maxChars
  /\ wrapped[2] # <<>>
  /\ \A i \in 1..Len(text) : text[i] # "\n"

\* C11: when no line wrapText returned is longer than the width, wrapping the
\* returned lines joined by line breaks, at the same width, returns the same
\* lines: as many, with the same content, the empty ones included.
C11_WrapIdempotent ==
  (pc = "rewrapped" /\ \A j \in 1..Len(wrapped) : Len(wrapped[j]) <= maxChars)
    => /\ Len(rewrapped) = Len(wrapped)
       /\ \A j \in 1..Len(wrapped) : rewrapped[j] = wrapped[j]

\* Three lines within the width, one of two words and one empty, wrapped again
C11_Witness ==
  /\ pc = "rewrapped"
  /\ Len(wrapped) = 3
  /\ \A j \in 1..Len(wrapped) : Len(wrapped[j]) <= maxChars
  /\ \E j \in 1..Len(wrapped) : wrapped[j] = <<>>
  /\ \E j \in 1..Len(wrapped) : Len(Words(wrapped[j])) = 2

====
